---- MODULE Spec2Model ----
(***************************************************************************)
(* A model of the execution core of the ir441 interpreter (exec.rs): the   *)
(* simulated memory (Memory::new, alloc, reserve, mem_lookup, mem_store),  *)
(* the copying collector (gc, trace) and the block executor (run_code,     *)
(* run_prog).                                                              *)
(*                                                                         *)
(* Conventions.                                                            *)
(*  - A VirtualVal is a record [tag, val]; a CodePtr carries the index of  *)
(*    its block in BlockName.                                              *)
(*  - Option<u64> is a sequence of length 0 (None) or 1 (Some).            *)
(*  - A Result is a record whose err field is NoErr on Ok.  A Rust panic   *)
(*    (assert!, panic!, index out of bounds, arithmetic overflow in a      *)
(*    build with overflow checks) is the error kind "panic".               *)
(*  - A u64 word of 2^30 or more is held in three limbs (see the section  *)
(*    on u64 arithmetic); addresses, sizes and counters of the model stay  *)
(*    below 2^30 and are plain numbers.                                    *)
(***************************************************************************)
EXTENDS Integers, Sequences, FiniteSets, TLC

VARIABLES
    m,        \* the Memory struct
    globs,    \* Globals: global name -> address
    gvals,    \* the values Memory::new wrote for the globals (prog.globals)
    locs,     \* Locals of the running activation
    stack,    \* suspended ancestor activations (host call stack)
    cycles,   \* ExecStats
    outcome,  \* what run_prog has returned so far
    steps,    \* number of instructions and terminators executed
    last,     \* record of what the last executed instruction did
    prog,     \* prog.blocks: block name -> [formals, instrs, next]
    block,    \* cur_block.name of the running activation
    idx,      \* position in cur_block.instrs (Len + 1: the terminator)
    prevblock, \* prevblock of the running activation
    stored    \* address -> the value the last successful Store or SetElt
              \* put there since the last gc

vars == <<m, globs, gvals, locs, stack, cycles, outcome, steps, last,
          prog, block, idx, prevblock, stored>>

----------------------------------------------------------------------------
(* Bounds of the model *)

\* instructions and terminators executed in one run
MaxSteps == 4

\* suspended activations (nesting depth of Call)
MaxDepth == 1

\* instructions and terminators executed in one run of a written-out program
MaxProgSteps == 9

----------------------------------------------------------------------------
(* VirtualVal *)

Data(n) == [tag |-> "Data", val |-> n]

CodePtr(b) == [tag |-> "CodePtr", val |-> b]

GCTombstone == [tag |-> "GCTombstone", val |-> 0]

\* Option<u64>
None == <<>>

Some(c) == <<c>>

\* RuntimeError; addr is the payload of the kinds that carry an address
Err(kind, addr) == [kind |-> kind, addr |-> addr]

NoErr == Err("Ok", 0)

Panic == Err("panic", 0)

IsOk(r) == r.err = NoErr

----------------------------------------------------------------------------
(* u64 arithmetic *)

RECURSIVE Pow2(_)

Pow2(k) == IF k = 0 THEN 1 ELSE 2 * Pow2(k - 1)

(* u64 words.  A word is held in three limbs, least significant first:    *)
(* bits 0..29, bits 30..59 and bits 60..63.  VirtualVal::Data of a word   *)
(* below 2^30 is Data(n); of a wider word it is the record Wide builds,   *)
(* whose val is the low limb.                                             *)

Limb == Pow2(30)

TopLimb == Pow2(4)

\* VirtualVal::Data of a word of 2^30 or more
Wide(w) == [tag |-> "Data", val |-> w[1], mid |-> w[2], top |-> w[3]]

IsWide(v) == "mid" \in DOMAIN v

\* the limbs of a Data value
Limbs(v) == IF IsWide(v) THEN <<v.val, v.mid, v.top>> ELSE <<v.val, 0, 0>>

\* VirtualVal::Data of the word with limbs w
WordOf(w) == IF w[2] = 0 /\ w[3] = 0 THEN Data(w[1]) ELSE Wide(w)

\* the word 0
ZeroWord == <<0, 0, 0>>

\* VirtualVal::as_u64_or_else: the word of a Data, in limbs, else the
\* caller's error
AsU64(v) == IF v.tag = "Data" THEN [err |-> NoErr, val |-> Limbs(v)]
            ELSE [err |-> Err("CorruptGCMetadata", 0), val |-> ZeroWord]

\* the payload of the errors that carry an address
ErrAt(kind, v) ==
    IF IsWide(v)
    THEN [kind |-> kind, addr |-> v.val, mid |-> v.mid, top |-> v.top]
    ELSE Err(kind, v.val)

\* a + b cut to 64 bits, and whether it passed 2^64
WAdd(a, b) ==
    LET s0 == a[1] + b[1]
        s1 == a[2] + b[2] + (s0 \div Limb)
        s2 == a[3] + b[3] + (s1 \div Limb)
    IN [w |-> <<s0 % Limb, s1 % Limb, s2 % TopLimb>>, carry |-> s2 >= TopLimb]

\* a - b cut to 64 bits, and whether it went below 0
WSub(a, b) ==
    LET d0 == a[1] - b[1]
        b0 == IF d0 < 0 THEN 1 ELSE 0
        d1 == a[2] - b[2] - b0
        b1 == IF d1 < 0 THEN 1 ELSE 0
        d2 == a[3] - b[3] - b1
    IN [w |-> <<d0 % Limb, d1 % Limb, d2 % TopLimb>>, carry |-> d2 < 0]

\* a < b
WLt(a, b) ==
    \/ a[3] < b[3]
    \/ a[3] = b[3] /\ a[2] < b[2]
    \/ a[3] = b[3] /\ a[2] = b[2] /\ a[1] < b[1]

\* a << r cut to 64 bits, r < 30: each limb gives its high r bits to the next
ShlBits(a, r) ==
    LET cut == Pow2(30 - r)
    IN <<(a[1] % cut) * Pow2(r),
         (a[2] % cut) * Pow2(r) + (a[1] \div cut),
         (a[3] * (IF r < 4 THEN Pow2(r) ELSE 0) + (a[2] \div cut)) % TopLimb>>

\* a << k cut to 64 bits, k < 64
WShl(a, k) ==
    LET s == ShlBits(a, k % 30)
    IN CASE k \div 30 = 0 -> s
         [] k \div 30 = 1 -> <<0, s[1], s[2] % TopLimb>>
         [] k \div 30 = 2 -> <<0, 0, s[1] % TopLimb>>

\* a >> r, r < 30: each limb takes the low r bits of the next
ShrBits(a, r) ==
    LET cut == Pow2(r)
    IN <<(a[1] \div cut) + (a[2] % cut) * Pow2(30 - r),
         (a[2] \div cut) + (a[3] % cut) * Pow2(30 - r),
         a[3] \div cut>>

\* a >> k, k < 64
WShr(a, k) ==
    LET s == ShrBits(a, k % 30)
    IN CASE k \div 30 = 0 -> s
         [] k \div 30 = 1 -> <<s[2], s[3], 0>>
         [] k \div 30 = 2 -> <<s[3], 0, 0>>

\* the product of two limbs as a low and a high limb, by 15-bit halves
LimbMul(x, y) ==
    LET half == Pow2(15)
        p00 == (x % half) * (y % half)
        mid == (x % half) * (y \div half) + (x \div half) * (y % half)
        p11 == (x \div half) * (y \div half)
        low == p00 + (mid % half) * half
    IN [lo |-> low % Limb, hi |-> p11 + (mid \div half) + (low \div Limb)]

\* x + y + z of three limbs as a low and a high limb
LimbSum(x, y, z) ==
    [lo |-> (((x + y) % Limb) + z) % Limb,
     hi |-> ((x + y) \div Limb) + ((((x + y) % Limb) + z) \div Limb)]

\* what the partial products ps that start at bit 60 and the carry of the
\* middle limb leave in bits 60..63, before the cut to 4 bits
TopBits(carry, ps) ==
    carry + (ps[1] % TopLimb) + (ps[2] % TopLimb) + (ps[3] % TopLimb)
          + (ps[4] % TopLimb) + (ps[5] % TopLimb)

\* bits 60..63 of a product and whether it passed 2^64
TopSum(carry, ps) ==
    [top |-> TopBits(carry, ps) % TopLimb,
     carry |-> \/ \E i \in 1 .. 5 : ps[i] >= TopLimb
               \/ TopBits(carry, ps) >= TopLimb]

\* the sum of the limb products that reach below bit 64: pij is the product
\* of limb i of a and limb j of b, high says that a product above bit 90 is
\* not 0
MulSum(p00, p01, p10, p11, p02, p20, mid, high) ==
    [w |-> <<p00.lo, mid.lo,
             TopSum(mid.hi, <<p01.hi, p10.hi, p11.lo, p02.lo, p20.lo>>).top>>,
     carry |-> \/ TopSum(mid.hi, <<p01.hi, p10.hi, p11.lo, p02.lo, p20.lo>>).carry
               \/ p11.hi # 0 \/ p02.hi # 0 \/ p20.hi # 0
               \/ high]

\* a * b cut to 64 bits, and whether it passed 2^64
WMul(a, b) ==
    MulSum(LimbMul(a[1], b[1]), LimbMul(a[1], b[2]), LimbMul(a[2], b[1]),
           LimbMul(a[2], b[2]), LimbMul(a[1], b[3]), LimbMul(a[3], b[1]),
           LimbSum(LimbMul(a[1], b[1]).hi, LimbMul(a[1], b[2]).lo,
                   LimbMul(a[2], b[1]).lo),
           \/ (a[2] # 0 /\ b[3] # 0) \/ (a[3] # 0 /\ b[2] # 0)
           \/ (a[3] # 0 /\ b[3] # 0))

\* one step of the long division by b: bit i of the quotient is set when
\* b << i does not pass 2^64 and is at most the remainder s.r
DivStep(b, i, s) ==
    LET sh == WShl(b, i)
    IN IF (i > 0 /\ WShr(b, 64 - i) # ZeroWord) \/ WLt(s.r, sh) THEN s
       ELSE [q |-> WAdd(s.q, WShl(<<1, 0, 0>>, i)).w, r |-> WSub(s.r, sh).w]

RECURSIVE DivSteps(_, _, _, _)

\* the steps hi, hi - 1, ..., lo of the long division by b, from state s
DivSteps(b, lo, hi, s) ==
    IF lo = hi THEN DivStep(b, lo, s)
    ELSE LET upper == DivSteps(b, ((lo + hi) \div 2) + 1, hi, s)
         IN IF upper.q = upper.q
            THEN DivSteps(b, lo, (lo + hi) \div 2, upper)
            ELSE upper

\* quotient and remainder of a by b, b not 0
WDivMod(a, b) == DivSteps(b, 0, 63, [q |-> ZeroWord, r |-> a])

RECURSIVE BitOp(_, _, _)

\* bitwise and / or / xor of two limbs, bit by bit
BitOp(o, a, b) ==
    IF a = 0 /\ b = 0 THEN 0
    ELSE LET x == a % 2
             y == b % 2
             bit == CASE o = "&" -> IF x = 1 /\ y = 1 THEN 1 ELSE 0
                      [] o = "|" -> IF x = 1 \/ y = 1 THEN 1 ELSE 0
                      [] o = "^" -> IF x # y THEN 1 ELSE 0
         IN bit + 2 * BitOp(o, a \div 2, b \div 2)

\* bitwise and / or / xor of two words
WBitOp(o, a, b) ==
    <<BitOp(o, a[1], b[1]), BitOp(o, a[2], b[2]), BitOp(o, a[3], b[3])>>

\* an arithmetic result: a panic when the u64 overflowed in a build with
\* overflow checks, the wrapped word otherwise
Checked(r, oc) ==
    IF r.carry /\ oc THEN [err |-> Panic, val |-> Data(0)]
    ELSE [err |-> NoErr, val |-> WordOf(r.w)]

Unchecked(w) == [err |-> NoErr, val |-> WordOf(w)]

----------------------------------------------------------------------------
(* Memory *)

\* first address handed to globals
FirstGlobal == 32

\* BTreeMap::insert of one cell
MapInsert(map, addr, v) ==
    [a \in DOMAIN map \cup {addr} |-> IF a = addr THEN v ELSE map[a]]

\* n zeroed cells at 8-byte stride starting at start
MapInsertZeros(map, start, n) ==
    LET new == {start + 8 * i : i \in 0 .. (n - 1)}
    IN [a \in DOMAIN map \cup new |-> IF a \in new THEN Data(0) ELSE map[a]]

\* Memory::new: globals laid out from address 32, then the three cursors
MemoryNew(vals, slot_cap) ==
    LET next_free == FirstGlobal + 8 * Len(vals)
    IN [map |-> [a \in {FirstGlobal + 8 * (i - 1) : i \in 1 .. Len(vals)}
                    |-> vals[((a - FirstGlobal) \div 8) + 1]],
        first_writable |-> next_free,
        base |-> next_free,
        next_alloc |-> next_free,
        slot_cap |-> slot_cap,
        slots_alloced |-> 0]

\* Memory::reserve
Reserve(mem, slots_including_metadata) ==
    IF mem.slot_cap # None
       /\ mem.slots_alloced + slots_including_metadata > mem.slot_cap[1]
    THEN [mem |-> mem, err |-> Err("OutOfMemory", 0), val |-> 0]
    ELSE [mem |-> [mem EXCEPT
                     !.map = MapInsertZeros(mem.map, mem.next_alloc,
                                            slots_including_metadata),
                     !.next_alloc = mem.next_alloc + slots_including_metadata * 8,
                     !.slots_alloced = mem.slots_alloced + slots_including_metadata],
          err |-> NoErr,
          val |-> mem.next_alloc]

\* an alloc whose gap below the block is one byte instead of one word
AllocByteGap(mem, n) ==
    IF mem.slot_cap # None /\ mem.slots_alloced + n + 1 > mem.slot_cap[1]
    THEN [mem |-> mem, err |-> Err("GCRequired", 0), val |-> 0]
    ELSE [mem |-> [mem EXCEPT
                     !.map = MapInsertZeros(mem.map, mem.next_alloc + 1, n),
                     !.next_alloc = mem.next_alloc + 1 + 8 * n],
          err |-> NoErr,
          val |-> mem.next_alloc + 1]

\* an alloc that skips no gap word
AllocNoGap(mem, n) ==
    IF mem.slot_cap # None /\ mem.slots_alloced + n + 1 > mem.slot_cap[1]
    THEN [mem |-> mem, err |-> Err("GCRequired", 0), val |-> 0]
    ELSE [mem |-> [mem EXCEPT
                     !.map = MapInsertZeros(mem.map, mem.next_alloc, n),
                     !.next_alloc = mem.next_alloc + 8 * n],
          err |-> NoErr,
          val |-> mem.next_alloc]

\* Memory::alloc (the locals argument is unused by the code)
Alloc(mem, n) ==
    IF mem.slot_cap # None /\ mem.slots_alloced + n + 1 > mem.slot_cap[1]
    THEN [mem |-> mem, err |-> Err("GCRequired", 0), val |-> 0]
    ELSE [mem |-> [mem EXCEPT
                     !.map = MapInsertZeros(mem.map, mem.next_alloc + 8, n),
                     !.next_alloc = mem.next_alloc + 8 + 8 * n],
          err |-> NoErr,
          val |-> mem.next_alloc + 8]

\* mem_lookup with the alignment check moved before the evacuated-region check
MemLookupAlignFirst(mem, addr) ==
    IF addr = 0
    THEN [err |-> Err("NullPointer", 0), val |-> Data(0)]
    ELSE IF addr % 8 # 0
    THEN [err |-> Err("UnalignedAccess", addr), val |-> Data(0)]
    ELSE IF addr >= mem.first_writable /\ addr < mem.base
    THEN [err |-> Err("ReadFromGCedData", 0), val |-> Data(0)]
    ELSE IF addr \notin DOMAIN mem.map
    THEN [err |-> Err("UnallocatedAddressRead", addr), val |-> Data(0)]
    ELSE IF mem.map[addr].tag = "GCTombstone"
    THEN [err |-> Err("AccessingDeallocatedAddress", addr), val |-> Data(0)]
    ELSE [err |-> NoErr, val |-> mem.map[addr]]

\* Memory::mem_lookup (the code never writes to self here)
MemLookup(mem, addr) ==
    IF addr = 0
    THEN [err |-> Err("NullPointer", 0), val |-> Data(0)]
    ELSE IF addr >= mem.first_writable /\ addr < mem.base
    THEN [err |-> Err("ReadFromGCedData", 0), val |-> Data(0)]
    ELSE IF addr % 8 = 0
    THEN IF addr \notin DOMAIN mem.map
         THEN [err |-> Err("UnallocatedAddressRead", addr), val |-> Data(0)]
         ELSE IF mem.map[addr].tag = "GCTombstone"
         THEN [err |-> Err("AccessingDeallocatedAddress", addr), val |-> Data(0)]
         ELSE [err |-> NoErr, val |-> mem.map[addr]]
    ELSE [err |-> Err("UnalignedAccess", addr), val |-> Data(0)]

\* mem_store with the alignment check moved before the region checks
MemStoreAlignFirst(mem, addr, v) ==
    IF addr = 0
    THEN [mem |-> mem, err |-> Err("NullPointer", 0), val |-> Data(0)]
    ELSE IF addr % 8 # 0
    THEN [mem |-> mem, err |-> Err("UnalignedAccess", addr), val |-> Data(0)]
    ELSE IF addr < mem.first_writable
    THEN [mem |-> mem, err |-> Err("WriteToImmutableData", 0), val |-> Data(0)]
    ELSE IF addr < mem.base
    THEN [mem |-> mem, err |-> Err("WriteToGCedData", 0), val |-> Data(0)]
    ELSE IF addr \notin DOMAIN mem.map
    THEN [mem |-> mem, err |-> Err("UnallocatedAddressWrite", addr),
          val |-> Data(0)]
    ELSE IF mem.map[addr].tag = "GCTombstone"
    THEN [mem |-> mem, err |-> Err("AccessingDeallocatedAddress", addr),
          val |-> Data(0)]
    ELSE [mem |-> [mem EXCEPT !.map = MapInsert(mem.map, addr, v)],
          err |-> NoErr, val |-> mem.map[addr]]

\* mem_store without the check against first_writable
MemStoreNoImmutableCheck(mem, addr, v) ==
    IF addr = 0
    THEN [mem |-> mem, err |-> Err("NullPointer", 0), val |-> Data(0)]
    ELSE IF addr >= mem.first_writable /\ addr < mem.base
    THEN [mem |-> mem, err |-> Err("WriteToGCedData", 0), val |-> Data(0)]
    ELSE IF addr % 8 = 0
    THEN IF addr \notin DOMAIN mem.map
         THEN [mem |-> mem, err |-> Err("UnallocatedAddressWrite", addr),
               val |-> Data(0)]
         ELSE IF mem.map[addr].tag = "GCTombstone"
         THEN [mem |-> mem, err |-> Err("AccessingDeallocatedAddress", addr),
               val |-> Data(0)]
         ELSE [mem |-> [mem EXCEPT !.map = MapInsert(mem.map, addr, v)],
               err |-> NoErr, val |-> mem.map[addr]]
    ELSE [mem |-> mem, err |-> Err("UnalignedAccess", addr), val |-> Data(0)]

\* Memory::mem_store; val is the previous value of the cell on Ok
MemStore(mem, addr, v) ==
    IF addr = 0
    THEN [mem |-> mem, err |-> Err("NullPointer", 0), val |-> Data(0)]
    ELSE IF addr < mem.first_writable
    THEN [mem |-> mem, err |-> Err("WriteToImmutableData", 0), val |-> Data(0)]
    ELSE IF addr < mem.base
    THEN [mem |-> mem, err |-> Err("WriteToGCedData", 0), val |-> Data(0)]
    ELSE IF addr % 8 = 0
    THEN IF addr \notin DOMAIN mem.map
         THEN [mem |-> mem, err |-> Err("UnallocatedAddressWrite", addr),
               val |-> Data(0)]
         ELSE IF mem.map[addr].tag = "GCTombstone"
         THEN [mem |-> mem, err |-> Err("AccessingDeallocatedAddress", addr),
               val |-> Data(0)]
         ELSE [mem |-> [mem EXCEPT !.map = MapInsert(mem.map, addr, v)],
               err |-> NoErr, val |-> mem.map[addr]]
    ELSE [mem |-> mem, err |-> Err("UnalignedAccess", addr), val |-> Data(0)]

\* Memory::mem_lookup at the address a Data holds.  The keys of the map and
\* base are below 2^30: a wider address is not null, is past the collected
\* region and is no key (lines 198-209).
LookupAt(mem, v) ==
    IF IsWide(v)
    THEN [err |-> IF v.val % 8 = 0 THEN ErrAt("UnallocatedAddressRead", v)
                  ELSE ErrAt("UnalignedAccess", v),
          val |-> Data(0)]
    ELSE MemLookup(mem, v.val)

\* Memory::mem_store at the address a Data holds (lines 214-227)
StoreAt(mem, v, val) ==
    IF IsWide(v)
    THEN [mem |-> mem,
          err |-> IF v.val % 8 = 0 THEN ErrAt("UnallocatedAddressWrite", v)
                  ELSE ErrAt("UnalignedAccess", v),
          val |-> Data(0)]
    ELSE MemStore(mem, v.val, val)

----------------------------------------------------------------------------------
(* The copying collector.  Each `?` of the code is a definition that takes *)
(* the Result as its first parameter and goes on only when it is Ok.       *)

RECURSIVE Trace(_, _, _)
RECURSIVE TraceFields(_, _, _, _, _, _, _)

\* Memory::trace of the address a Data holds.  The keys of the map are below
\* 2^30, so the forwarding word of a wider address is absent (line 135).
TraceAt(mem, v, oc) ==
    IF IsWide(v)
    THEN [mem |-> mem, err |-> ErrAt("UnallocatedAddressRead", v), val |-> 0]
    ELSE Trace(mem, v.val, oc)

\* Memory::trace, after the mem_store into slot i of the copy (lines 163, 166):
\* `?`, then `slotmap >> 1` and the next slot; slotmap is the word in limbs
FieldStored(s, addr, new_obj_base, i, count, slotmap, oc) ==
    IF ~IsOk(s)
    THEN [mem |-> s.mem, err |-> s.err, val |-> 0]
    ELSE TraceFields(s.mem, addr, new_obj_base, i + 1, count, WShr(slotmap, 1), oc)

\* Memory::trace, after the recursive trace of a reference slot (lines 161-163)
FieldTraced(t, addr, new_obj_base, i, count, slotmap, oc) ==
    IF ~IsOk(t)
    THEN t
    ELSE FieldStored(MemStore(t.mem, new_obj_base + i * 8, Data(t.val)),
                     addr, new_obj_base, i, count, slotmap, oc)

\* trace that leaves a scalar slot of the copy as reserve zeroed it
TraceFieldSkipsScalars(orig, mem, addr, new_obj_base, i, count, slotmap, oc) ==
    IF ~IsOk(orig)
    THEN [mem |-> mem, err |-> orig.err, val |-> 0]
    ELSE IF slotmap[1] % 2 = 1
    THEN IF orig.val.tag = "GCTombstone"
         THEN [mem |-> mem, err |-> Err("CorruptGCMetadata", 0), val |-> 0]
         ELSE IF orig.val.tag = "CodePtr"
         THEN [mem |-> mem, err |-> Err("BadGCField", 0), val |-> 0]
         ELSE FieldTraced(TraceAt(mem, orig.val, oc),
                          addr, new_obj_base, i, count, slotmap, oc)
    ELSE FieldStored([mem |-> mem, err |-> NoErr, val |-> Data(0)],
                     addr, new_obj_base, i, count, slotmap, oc)

\* Memory::trace, slot i once the old slot has been read (lines 155-167)
TraceField(orig, mem, addr, new_obj_base, i, count, slotmap, oc) ==
    IF ~IsOk(orig)
    THEN [mem |-> mem, err |-> orig.err, val |-> 0]
    ELSE IF slotmap[1] % 2 = 1
    THEN IF orig.val.tag = "GCTombstone"
         THEN [mem |-> mem, err |-> Err("CorruptGCMetadata", 0), val |-> 0]
         ELSE IF orig.val.tag = "CodePtr"
         THEN [mem |-> mem, err |-> Err("BadGCField", 0), val |-> 0]
         ELSE FieldTraced(TraceAt(mem, orig.val, oc),
                          addr, new_obj_base, i, count, slotmap, oc)
    ELSE FieldStored(MemStore(mem, new_obj_base + i * 8, orig.val),
                     addr, new_obj_base, i, count, slotmap, oc)

\* trace that returns the address of the old object instead of the copy
TraceFieldsReturnsOld(mem, addr, new_obj_base, i, count, slotmap, oc) ==
    IF i = count
    THEN [mem |-> mem, err |-> NoErr, val |-> addr]
    ELSE TraceField(MemLookup(mem, addr + i * 8),
                    mem, addr, new_obj_base, i, count, slotmap, oc)

\* Memory::trace, the loop over the payload slots (lines 153-169): slot i of
\* the old object at addr goes to slot i of the copy at new_obj_base.  count
\* is allocsize - 3; oc says whether the build checks arithmetic overflow.
TraceFields(mem, addr, new_obj_base, i, count, slotmap, oc) ==
    IF i = count
    THEN [mem |-> mem, err |-> NoErr, val |-> new_obj_base]
    ELSE TraceField(MemLookup(mem, addr + i * 8),
                    mem, addr, new_obj_base, i, count, slotmap, oc)

\* Memory::trace, the third header word of the copy (line 150)
HeaderStored2(s2, new_metadata_loc, slotmapv) ==
    IF ~IsOk(s2) THEN s2
    ELSE MemStore(s2.mem, new_metadata_loc + 16, slotmapv)

\* Memory::trace, the forwarding word of the copy, set to 0 (line 149)
HeaderStored1(s1, new_metadata_loc, slotmapv) ==
    IF ~IsOk(s1) THEN s1
    ELSE HeaderStored2(MemStore(s1.mem, new_metadata_loc + 8, Data(0)),
                       new_metadata_loc, slotmapv)

\* Memory::trace, the header of the copy (lines 147-150)
WriteHeader(mem, new_metadata_loc, allocsizev, slotmapv) ==
    HeaderStored1(MemStore(mem, new_metadata_loc, allocsizev),
                  new_metadata_loc, slotmapv)

\* Memory::trace, from the written header on (lines 151-170)
HeaderWritten(h, new_metadata_loc, allocsize, slotmap, addr, oc) ==
    IF ~IsOk(h)
    THEN [mem |-> h.mem, err |-> h.err, val |-> 0]
    ELSE IF allocsize < 3 /\ oc             \* `allocsize - 3` overflows
    THEN [mem |-> h.mem, err |-> Panic, val |-> 0]
    ELSE TraceFields(h.mem, addr, new_metadata_loc + 24, 0,
                     allocsize - 3, slotmap, oc)

\* Memory::trace, after reserve (line 146)
Reserved(r, allocsizev, slotmapv, addr, oc) ==
    IF ~IsOk(r)
    THEN [mem |-> r.mem, err |-> r.err, val |-> 0]
    ELSE HeaderWritten(WriteHeader(r.mem, r.val, allocsizev, slotmapv),
                       r.val, allocsizev.val, Limbs(slotmapv), addr, oc)

\* Memory::reserve of the size a header word holds, slot_cap being Some
\* (line 89).  slots_alloced and slot_cap are below 2^30: a wider size is
\* past the cap, unless the sum of line 117 passes 2^64; then the build with
\* overflow checks panics, and the other one runs the loop of line 121 until
\* the process is out of memory.
ReserveWord(mem, v) ==
    IF IsWide(v)
    THEN [mem |-> mem,
          err |-> IF WAdd(<<mem.slots_alloced, 0, 0>>, Limbs(v)).carry
                  THEN Panic ELSE Err("OutOfMemory", 0),
          val |-> 0]
    ELSE Reserve(mem, v.val)

\* Memory::trace, the copy of a not yet forwarded object (lines 141-170)
TraceMove(mem, addr, oc) ==
    LET allocsize_loc == addr - 3 * 8
        slotmap_loc == addr - 8
    IN IF allocsize_loc \notin DOMAIN mem.map
       THEN [mem |-> mem, err |-> Err("UnallocatedAddressRead", addr), val |-> 0]
       ELSE IF ~IsOk(AsU64(mem.map[allocsize_loc]))
       THEN [mem |-> mem, err |-> AsU64(mem.map[allocsize_loc]).err, val |-> 0]
       ELSE IF slotmap_loc \notin DOMAIN mem.map
       THEN [mem |-> mem, err |-> Err("UnallocatedAddressRead", addr), val |-> 0]
       ELSE IF ~IsOk(AsU64(mem.map[slotmap_loc]))
       THEN [mem |-> mem, err |-> AsU64(mem.map[slotmap_loc]).err, val |-> 0]
       ELSE Reserved(ReserveWord(mem, mem.map[allocsize_loc]),
                     mem.map[allocsize_loc], mem.map[slotmap_loc], addr, oc)

\* a trace that returns an address without a forwarding word as it is
TraceSkipsUnknown(mem, addr, oc) ==
    LET fwd_ptr_loc == addr - 2 * 8
    IN IF fwd_ptr_loc \notin DOMAIN mem.map
       THEN [mem |-> mem, err |-> NoErr, val |-> addr]
       ELSE IF mem.map[fwd_ptr_loc].tag # "Data"
       THEN [mem |-> mem, err |-> Err("CorruptGCMetadata", 0), val |-> 0]
       ELSE IF mem.map[fwd_ptr_loc] # Data(0)
       THEN IF ~IsWide(mem.map[fwd_ptr_loc])
               /\ mem.map[fwd_ptr_loc].val \in DOMAIN mem.map
            THEN [mem |-> mem, err |-> NoErr, val |-> mem.map[fwd_ptr_loc].val]
            ELSE [mem |-> mem, err |-> Panic, val |-> 0]
       ELSE TraceMove(mem, addr, oc)

\* Memory::trace
Trace(mem, addr, oc) ==
    LET fwd_ptr_loc == addr - 2 * 8
    IN IF addr < 3 * 8 /\ oc                \* `addr - 3*8` overflows
       THEN [mem |-> mem, err |-> Panic, val |-> 0]
       ELSE IF fwd_ptr_loc \notin DOMAIN mem.map
       THEN [mem |-> mem, err |-> Err("UnallocatedAddressRead", addr), val |-> 0]
       ELSE IF mem.map[fwd_ptr_loc].tag # "Data"
       THEN [mem |-> mem, err |-> Err("CorruptGCMetadata", 0), val |-> 0]
       ELSE IF mem.map[fwd_ptr_loc] # Data(0)
       THEN IF ~IsWide(mem.map[fwd_ptr_loc])
               /\ mem.map[fwd_ptr_loc].val \in DOMAIN mem.map    \* assert!
            THEN [mem |-> mem, err |-> NoErr, val |-> mem.map[fwd_ptr_loc].val]
            ELSE [mem |-> mem, err |-> Panic, val |-> 0]
       ELSE TraceMove(mem, addr, oc)

RECURSIVE GcRoots(_, _, _, _, _)

\* Memory::gc, a Data local once it has been traced (lines 102-103)
RootTraced(t, locals, order, k, oc) ==
    IF ~IsOk(t)
    THEN [mem |-> t.mem, locs |-> locals, err |-> t.err]
    ELSE GcRoots(t.mem, [locals EXCEPT ![order[k]] = Data(t.val)],
                 order, k + 1, oc)

\* Memory::gc, the root scan (lines 98-107); order is the iteration order of
\* the HashMap, k the position reached in it
GcRoots(mem, locals, order, k, oc) ==
    IF k > Len(order)
    THEN [mem |-> mem, locs |-> locals, err |-> NoErr]
    ELSE IF locals[order[k]].tag = "CodePtr"
    THEN GcRoots(mem, locals, order, k + 1, oc)
    ELSE IF locals[order[k]].tag = "GCTombstone"
    THEN [mem |-> mem, locs |-> locals, err |-> Panic]
    ELSE RootTraced(TraceAt(mem, locals[order[k]], oc), locals, order, k, oc)

RECURSIVE GcWipe(_, _, _)

\* Memory::gc, after the mem_store of one tombstone (line 111)
Wiped(s, loc, new_base) ==
    IF ~IsOk(s)
    THEN [mem |-> s.mem, err |-> s.err]
    ELSE GcWipe(s.mem, loc + 8, new_base)

\* a tombstone loop that inserts directly and includes new_base
GcWipeInclusive(mem, loc, new_base) ==
    [mem |-> [mem EXCEPT !.map =
                [a \in DOMAIN mem.map
                          \cup {x \in loc .. new_base : (x - loc) % 8 = 0}
                   |-> IF a >= loc /\ a <= new_base THEN GCTombstone
                       ELSE mem.map[a]]],
     err |-> NoErr]

\* Memory::gc, the tombstone loop (lines 110-112) from loc up to new_base
GcWipe(mem, loc, new_base) ==
    IF loc >= new_base
    THEN [mem |-> mem, err |-> NoErr]
    ELSE Wiped(MemStore(mem, loc, GCTombstone), loc, new_base)

\* a flip that puts base one gap word past the bump pointer
GcFlipPastGap(w, locals, new_base) ==
    IF ~IsOk(w)
    THEN [mem |-> w.mem, locs |-> locals, err |-> w.err]
    ELSE [mem |-> [w.mem EXCEPT !.base = w.mem.next_alloc + 8],
          locs |-> locals, err |-> NoErr]

\* Memory::gc, the flip of the semispace (lines 113-114)
GcFlip(w, locals, new_base) ==
    IF ~IsOk(w)
    THEN [mem |-> w.mem, locs |-> locals, err |-> w.err]
    ELSE [mem |-> [w.mem EXCEPT !.base = new_base], locs |-> locals,
          err |-> NoErr]

\* Memory::gc, after the root scan (lines 108-114)
GcScanned(r, base, new_base) ==
    IF ~IsOk(r) THEN r
    ELSE GcFlip(GcWipe(r.mem, base, new_base), r.locs, new_base)

\* Memory::gc
Gc(mem, locals, order, oc) ==
    IF mem.slot_cap = None
    THEN [mem |-> mem, locs |-> locals, err |-> Panic]
    ELSE GcScanned(GcRoots([mem EXCEPT !.slots_alloced = 0], locals, order, 1, oc),
                   mem.base, mem.next_alloc)

----------------------------------------------------------------------
(* The program: IR expressions, the block table and the inputs of a run *)

\* IRExpr
IntLit(v) == [kind |-> "IntLit", n |-> v, s |-> ""]

Var(id) == [kind |-> "Var", n |-> 0, s |-> id]

BlockRef(bname) == [kind |-> "BlockRef", n |-> 0, s |-> bname]

GlobalRef(name) == [kind |-> "GlobalRef", n |-> 0, s |-> name]

\* IRStatement: lhs, the operand expressions es, the operator of an Op, the
\* slots of an Alloc and the (bname, src) entries of a Phi
Stmt(kind, lhs, es, op, n, opts) ==
    [kind |-> kind, lhs |-> lhs, es |-> es, op |-> op, n |-> n, opts |-> opts]

StmtPrint(out) == Stmt("Print", "", <<out>>, "", 0, <<>>)

StmtAlloc(lhs, slots) == Stmt("Alloc", lhs, <<>>, "", slots, <<>>)

StmtVarAssign(lhs, rhs) == Stmt("VarAssign", lhs, <<rhs>>, "", 0, <<>>)

StmtPhi(lhs, opts) == Stmt("Phi", lhs, <<>>, "", 0, opts)

StmtCall(lhs, code, receiver, args) ==
    Stmt("Call", lhs, <<code, receiver>> \o args, "", 0, <<>>)

StmtSetElt(base, offset, val) ==
    Stmt("SetElt", "", <<base, offset, val>>, "", 0, <<>>)

StmtGetElt(lhs, base, offset) == Stmt("GetElt", lhs, <<base, offset>>, "", 0, <<>>)

StmtLoad(lhs, base) == Stmt("Load", lhs, <<base>>, "", 0, <<>>)

StmtStore(base, val) == Stmt("Store", "", <<base, val>>, "", 0, <<>>)

StmtOp(lhs, arg1, op, arg2) == Stmt("Op", lhs, <<arg1, arg2>>, op, 0, <<>>)

\* an entry of a Phi
Opt(bname, src) == [bname |-> bname, src |-> src]

\* ControlXfer
XferOf(kind, e, t, f) == [kind |-> kind, e |-> e, t |-> t, f |-> f]

Fail == XferOf("Fail", IntLit(0), "", "")

Ret(val) == XferOf("Ret", val, "", "")

Jump(b) == XferOf("Jump", IntLit(0), b, "")

If(cond, tblock, fblock) == XferOf("If", cond, tblock, fblock)

\* BasicBlock
BasicBlock(formals, instrs, next) ==
    [formals |-> formals, instrs |-> instrs, next |-> next]

\* prog.blocks: the blocks of the program and their formals
BlockNames == DOMAIN prog

\* the index a CodePtr carries for each block name
BlockId == [main |-> 1, bb |-> 2, t |-> 3, f |-> 4, join |-> 5, bret |-> 6]

BlockFormals == [b \in DOMAIN prog |-> prog[b].formals]

\* the blocks of a run whose instructions are drawn step by step: main,
\* and a callee bb with two formals
OpenProgram ==
    [main |-> BasicBlock(<<>>, <<>>, Fail),
     bb |-> BasicBlock(<<"p", "q">>, <<>>, Fail)]

\* the variable names the instructions use
Vars == {"p", "q"}

\* prog.globals: one array named g; the choices lay out, from address 32,
\* an object with header (alloc-size, forwarding word, slot map):
\*   a scalar object; an object whose forwarding word is already non-zero;
\*   an object whose reference slot points to itself; a scalar object whose
\*   slot holds its own address; an object whose reference slot points to a
\*   second, scalar object.
GlobalChoices ==
    { <<Data(4), Data(0), Data(0), Data(7)>>,
      <<Data(4), Data(32), Data(0), Data(7)>>,
      <<Data(4), Data(0), Data(1), Data(56)>>,
      <<Data(4), Data(0), Data(0), Data(56)>>,
      <<Data(4), Data(0), Data(1), Data(88),
        Data(4), Data(0), Data(0), CodePtr(2)>> }

\* the cap argument of run_prog
Caps == {None, Some(8)}

\* the slots operand of Alloc
AllocSlots == {4, 8}

----------------------------------------------------------------------------
(* ExecStats, Locals and expressions *)

ZeroStats ==
    [fast_alu_ops |-> 0, slow_alu_ops |-> 0, conditional_branches |-> 0,
     unconditional_branches |-> 0, calls |-> 0, rets |-> 0, mem_reads |-> 0,
     mem_writes |-> 0, allocs |-> 0, prints |-> 0, phis |-> 0]

\* an increment that resets the other counters
BumpResetsOthers(c, field) == [ZeroStats EXCEPT ![field] = c[field] + 1]

\* the increment methods of ExecStats
Bump(c, field) == [c EXCEPT ![field] = c[field] + 1]

EmptyLocals == [x \in {} |-> Data(0)]

\* no cell
NoCells == [a \in {} |-> Data(0)]

\* set_var
SetVar(l, x, v) == [y \in DOMAIN l \cup {x} |-> IF y = x THEN v ELSE l[y]]

\* read_var
ReadVar(l, v) ==
    IF v \in DOMAIN l
    THEN [err |-> NoErr, val |-> l[v]]
    ELSE [err |-> Err("UninitializedVariable", 0), val |-> Data(0)]

\* expr_val
ExprVal(l, g, e) ==
    CASE e.kind = "IntLit" ->
            [err |-> NoErr, val |-> WordOf(<<e.n % Limb, e.n \div Limb, 0>>)]
      [] e.kind = "Var" -> ReadVar(l, e.s)
      [] e.kind = "BlockRef" ->
            IF e.s \in BlockNames
            THEN [err |-> NoErr, val |-> CodePtr(BlockId[e.s])]
            ELSE [err |-> Err("InvalidBlock", 0), val |-> Data(0)]
      [] e.kind = "GlobalRef" ->
            IF e.s \in DOMAIN g
            THEN [err |-> NoErr, val |-> Data(g[e.s])]
            ELSE [err |-> Err("UndefinedGlobal", 0), val |-> Data(0)]

\* the iteration orders a HashMap with key set S can have
Orders(S) ==
    {o \in [1 .. Cardinality(S) -> S] :
        \A i, j \in 1 .. Cardinality(S) : i # j => o[i] # o[j]}

----------------------------------------------------------------------------
(* run_code: the effect of one instruction on (memory, locals, stats).     *)
(* An effect with err # NoErr is what the `?` of line 535 returns.         *)

Eff(mem, l, c, e) == [m |-> mem, locs |-> l, cycles |-> c, err |-> e]

\* what an Alloc instruction did besides its effect: its slots operand, the
\* result of its first alloc call, how often it called gc and alloc, whether
\* gc returned Ok, and the memory and locals gc left
AllocTrace(n, first, gcs, allocs, ok, gmem, glocs) ==
    [n |-> n, first |-> first, gc_calls |-> gcs, alloc_calls |-> allocs,
     gc_ok |-> ok, gc_m |-> gmem, gc_locs |-> glocs]

\* a retry that returns the error of the second alloc as it is
AllocRetriedPassesError(retry, g, c, v, n) ==
    IF ~IsOk(retry)
    THEN [eff |-> Eff(retry.mem, g.locs, c, retry.err),
          at |-> AllocTrace(n, "GCRequired", 1, 2, TRUE, g.mem, g.locs)]
    ELSE [eff |-> Eff(retry.mem, SetVar(g.locs, v, Data(retry.val)), c, NoErr),
          at |-> AllocTrace(n, "GCRequired", 1, 2, TRUE, g.mem, g.locs)]

\* IRStatement::Alloc, the retry after gc (lines 374-382)
AllocRetried(retry, g, c, v, n) ==
    IF retry.err.kind = "GCRequired"
    THEN [eff |-> Eff(retry.mem, g.locs, c, Err("OutOfMemory", 0)),
          at |-> AllocTrace(n, "GCRequired", 1, 2, TRUE, g.mem, g.locs)]
    ELSE IF ~IsOk(retry)
    THEN [eff |-> Eff(retry.mem, g.locs, c, retry.err),
          at |-> AllocTrace(n, "GCRequired", 1, 2, TRUE, g.mem, g.locs)]
    ELSE [eff |-> Eff(retry.mem, SetVar(g.locs, v, Data(retry.val)), c, NoErr),
          at |-> AllocTrace(n, "GCRequired", 1, 2, TRUE, g.mem, g.locs)]

\* an Alloc whose retry after gc is not held to the cap
AllocCollectedUncapped(g, c, v, n) ==
    IF ~IsOk(g)
    THEN [eff |-> Eff(g.mem, g.locs, c, g.err),
          at |-> AllocTrace(n, "GCRequired", 1, 1, FALSE, g.mem, g.locs)]
    ELSE AllocRetried(Alloc([g.mem EXCEPT !.slot_cap = None], n), g, c, v, n)

\* IRStatement::Alloc, after `m.gc(&mut locs)?` (lines 373-374)
AllocCollected(g, c, v, n) ==
    IF ~IsOk(g)
    THEN [eff |-> Eff(g.mem, g.locs, c, g.err),
          at |-> AllocTrace(n, "GCRequired", 1, 1, FALSE, g.mem, g.locs)]
    ELSE AllocRetried(Alloc(g.mem, n), g, c, v, n)

\* an Alloc whose direct success is not counted
AllocedUncounted(result, mem, l, c, v, n, order, oc) ==
    IF IsOk(result)
    THEN [eff |-> Eff(result.mem, SetVar(l, v, Data(result.val)), c, NoErr),
          at |-> AllocTrace(n, "Ok", 0, 1, FALSE, mem, l)]
    ELSE IF result.err.kind = "GCRequired"
    THEN AllocCollected(Gc(mem, l, order, oc), c, v, n)
    ELSE [eff |-> Eff(result.mem, l, c, result.err),
          at |-> AllocTrace(n, result.err.kind, 0, 1, FALSE, mem, l)]

\* IRStatement::Alloc, after the first alloc (lines 368-385)
Alloced(result, mem, l, c, v, n, order, oc) ==
    IF IsOk(result)
    THEN [eff |-> Eff(result.mem, SetVar(l, v, Data(result.val)),
                      Bump(c, "allocs"), NoErr),
          at |-> AllocTrace(n, "Ok", 0, 1, FALSE, mem, l)]
    ELSE IF result.err.kind = "GCRequired"
    THEN AllocCollected(Gc(mem, l, order, oc), c, v, n)
    ELSE [eff |-> Eff(result.mem, l, c, result.err),
          at |-> AllocTrace(n, result.err.kind, 0, 1, FALSE, mem, l)]

\* IRStatement::Alloc (lines 366-386)
RunAlloc(mem, l, c, v, n, order, oc) ==
    Alloced(Alloc(mem, n), mem, l, c, v, n, order, oc)

\* IRStatement::Print (lines 360-365)
RunPrint(mem, l, c, g, e) ==
    LET v == ExprVal(l, g, e)
    IN IF ~IsOk(v) THEN Eff(mem, l, c, v.err)
       ELSE Eff(mem, l, Bump(c, "prints"), NoErr)

RECURSIVE PhiEntry(_, _, _)

\* IRStatement::Phi, the loop over opts (lines 398-405): the position of
\* the first entry from k on whose bname is pred, or 0
PhiEntry(opts, pred, k) ==
    IF k > Len(opts) THEN 0
    ELSE IF opts[k].bname = pred THEN k
    ELSE PhiEntry(opts, pred, k + 1)

\* IRStatement::Phi (lines 392-412)
RunPhi(mem, l, c, g, prev, dest, opts) ==
    LET k == PhiEntry(opts, prev[1], 1)
        v == ExprVal(l, g, opts[k].src)
    IN IF prev = None THEN Eff(mem, l, c, Err("PhiInFirstBlock", 0))
       ELSE IF k = 0
       THEN Eff(mem, l, Bump(c, "phis"), Err("BadPhiPredecessor", 0))
       ELSE IF ~IsOk(v) THEN Eff(mem, l, c, v.err)
       ELSE Eff(mem, SetVar(l, dest, v.val), Bump(c, "phis"), NoErr)

\* IRStatement::VarAssign (lines 387-391)
RunVarAssign(mem, l, c, g, var, e) ==
    LET v == ExprVal(l, g, e)
    IN IF ~IsOk(v) THEN Eff(mem, l, c, v.err)
       ELSE Eff(mem, SetVar(l, var, v.val), Bump(c, "fast_alu_ops"), NoErr)

\* IRStatement::Load (lines 483-494)
RunLoad(mem, l, c, g, dest, e) ==
    LET v == ExprVal(l, g, e)
        memval == LookupAt(mem, v.val)
    IN IF ~IsOk(v) THEN Eff(mem, l, c, v.err)
       ELSE IF v.val.tag = "CodePtr"
       THEN Eff(mem, l, c, Err("AccessingCodeInMemory", 0))
       ELSE IF v.val.tag = "GCTombstone"
       THEN Eff(mem, l, c, Err("ReadFromGCedData", 0))
       ELSE IF ~IsOk(memval)
       THEN Eff(mem, l, Bump(c, "mem_reads"), memval.err)
       ELSE Eff(mem, SetVar(l, dest, memval.val), Bump(c, "mem_reads"), NoErr)

\* IRStatement::Store (lines 495-506)
RunStore(mem, l, c, g, e, ve) ==
    LET bv == ExprVal(l, g, e)
        vv == ExprVal(l, g, ve)
        st == StoreAt(mem, bv.val, vv.val)
    IN IF ~IsOk(bv) THEN Eff(mem, l, c, bv.err)
       ELSE IF ~IsOk(vv) THEN Eff(mem, l, c, vv.err)
       ELSE IF bv.val.tag = "CodePtr"
       THEN Eff(mem, l, c, Err("AccessingCodeInMemory", 0))
       ELSE IF bv.val.tag = "GCTombstone"
       THEN Eff(mem, l, c, Err("WriteToGCedData", 0))
       ELSE Eff(st.mem, l, Bump(c, "mem_writes"), st.err)

\* the counters of an element access: multiplication, addition, memory access
BumpElt(c, access) == Bump(Bump(Bump(c, "slow_alu_ops"), "fast_alu_ops"), access)

\* the address of an element, `n+(8*offset)` (lines 457, 477)
EltAddr(n, offset, oc) ==
    LET scaled == Checked(WMul(<<8, 0, 0>>, Limbs(offset)), oc)
    IN IF ~IsOk(scaled) THEN scaled
       ELSE Checked(WAdd(Limbs(n), Limbs(scaled.val)), oc)

\* a SetElt that stores at base whatever the offset
RunSetEltAtBase(mem, l, c, g, base, off, val, oc) ==
    LET vbase == ExprVal(l, g, base)
        offv == ExprVal(l, g, off)
        v == ExprVal(l, g, val)
        st == StoreAt(mem, vbase.val, v.val)
    IN IF ~IsOk(vbase) THEN Eff(mem, l, c, vbase.err)
       ELSE IF ~IsOk(offv) THEN Eff(mem, l, c, offv.err)
       ELSE IF ~IsOk(v) THEN Eff(mem, l, c, v.err)
       ELSE IF vbase.val.tag # "Data" \/ offv.val.tag # "Data"
       THEN Eff(mem, l, c, Err("AccessingCodeInMemory", 0))
       ELSE Eff(st.mem, l, BumpElt(c, "mem_writes"), st.err)

\* IRStatement::SetElt (lines 441-461)
RunSetElt(mem, l, c, g, base, off, val, oc) ==
    LET vbase == ExprVal(l, g, base)
        offv == ExprVal(l, g, off)
        v == ExprVal(l, g, val)
        at == EltAddr(vbase.val, offv.val, oc)
        st == StoreAt(mem, at.val, v.val)
    IN IF ~IsOk(vbase) THEN Eff(mem, l, c, vbase.err)
       ELSE IF ~IsOk(offv) THEN Eff(mem, l, c, offv.err)
       ELSE IF ~IsOk(v) THEN Eff(mem, l, c, v.err)
       ELSE IF vbase.val.tag = "CodePtr"
       THEN Eff(mem, l, c, Err("AccessingCodeInMemory", 0))
       ELSE IF vbase.val.tag = "GCTombstone"
       THEN Eff(mem, l, c, Err("WriteToGCedData", 0))
       ELSE IF offv.val.tag = "CodePtr"
       THEN Eff(mem, l, c, Err("AccessingCodeInMemory", 0))
       ELSE IF offv.val.tag = "GCTombstone"
       THEN Eff(mem, l, c, Err("ReadFromGCedData", 0))
       ELSE IF ~IsOk(at)
       THEN Eff(mem, l, BumpElt(c, "mem_writes"), at.err)
       ELSE Eff(st.mem, l, BumpElt(c, "mem_writes"), st.err)

\* IRStatement::GetElt (lines 462-482)
RunGetElt(mem, l, c, g, dest, e, off, oc) ==
    LET v == ExprVal(l, g, e)
        offv == ExprVal(l, g, off)
        at == EltAddr(v.val, offv.val, oc)
        mval == LookupAt(mem, at.val)
    IN IF ~IsOk(v) THEN Eff(mem, l, c, v.err)
       ELSE IF ~IsOk(offv) THEN Eff(mem, l, c, offv.err)
       ELSE IF v.val.tag = "CodePtr"
       THEN Eff(mem, l, c, Err("AccessingCodeInMemory", 0))
       ELSE IF v.val.tag = "GCTombstone"
       THEN Eff(mem, l, c, Err("ReadFromGCedData", 0))
       ELSE IF offv.val.tag = "CodePtr"
       THEN Eff(mem, l, c, Err("AccessingCodeInMemory", 0))
       ELSE IF offv.val.tag = "GCTombstone"
       THEN Eff(mem, l, c, Err("ReadFromGCedData", 0))
       ELSE IF ~IsOk(at)
       THEN Eff(mem, l, BumpElt(c, "mem_reads"), at.err)
       ELSE IF ~IsOk(mval)
       THEN Eff(mem, l, BumpElt(c, "mem_reads"), mval.err)
       ELSE Eff(mem, SetVar(l, dest, mval.val), BumpElt(c, "mem_reads"), NoErr)

\* every operator charged to the fast counter
OpCounterAllFast(o) == "fast_alu_ops"

\* the counter an operator is charged to
OpCounter(o) == IF o \in {"/", "*"} THEN "slow_alu_ops" ELSE "fast_alu_ops"

\* the operators of IRStatement::Op
KnownOps == {"+", "<<", ">>", "-", "/", "*", "&", "|", "^", "<", ">", "=="}

\* a shift: an amount of 64 or more panics in a build with overflow checks
\* and is masked to its low 6 bits otherwise
Shifted(o, a, k, oc) ==
    IF (k[2] # 0 \/ k[3] # 0 \/ k[1] >= 64) /\ oc
    THEN [err |-> Panic, val |-> Data(0)]
    ELSE Unchecked(IF o = "<<" THEN WShl(a, k[1] % 64) ELSE WShr(a, k[1] % 64))

\* the Data an operator yields on Data n1 and Data n2 (lines 517-531), in
\* u64 arithmetic.  Division by zero panics in every build.
OpWord(o, n1, n2, oc) ==
    LET a == Limbs(n1)
        b == Limbs(n2)
    IN CASE o = "+" -> Checked(WAdd(a, b), oc)
         [] o \in {"<<", ">>"} -> Shifted(o, a, b, oc)
         [] o = "-" -> Checked(WSub(a, b), oc)
         [] o = "/" -> IF b = ZeroWord THEN [err |-> Panic, val |-> Data(0)]
                       ELSE Unchecked(WDivMod(a, b).q)
         [] o = "*" -> Checked(WMul(a, b), oc)
         [] o \in {"&", "|", "^"} -> Unchecked(WBitOp(o, a, b))
         [] o = "<" -> [err |-> NoErr, val |-> Data(IF WLt(a, b) THEN 1 ELSE 0)]
         [] o = ">" -> [err |-> NoErr, val |-> Data(IF WLt(b, a) THEN 1 ELSE 0)]
         [] o = "==" -> [err |-> NoErr, val |-> Data(IF a = b THEN 1 ELSE 0)]
         [] OTHER -> [err |-> Err("NYI", 0), val |-> Data(0)]

\* IRStatement::Op (lines 507-534)
RunOp(mem, l, c, g, v, e1, o, e2, oc) ==
    LET v1 == ExprVal(l, g, e1)
        v2 == ExprVal(l, g, e2)
        w == OpWord(o, v1.val, v2.val, oc)
    IN IF ~IsOk(v1) THEN Eff(mem, l, c, v1.err)
       ELSE IF ~IsOk(v2) THEN Eff(mem, l, c, v2.err)
       ELSE IF v1.val.tag = "CodePtr" \/ v2.val.tag = "CodePtr"
       THEN Eff(mem, l, c, Err("CodeAddressArithmetic", 0))
       ELSE IF v1.val.tag = "GCTombstone" \/ v2.val.tag = "GCTombstone"
       THEN Eff(mem, l, c, Err("ReadFromGCedData", 0))
       ELSE IF o \notin KnownOps
       THEN Eff(mem, l, c, Err("NYI", 0))
       ELSE IF ~IsOk(w)
       THEN Eff(mem, l, Bump(c, OpCounter(o)), w.err)
       ELSE Eff(mem, SetVar(l, v, w.val), Bump(c, OpCounter(o)), NoErr)

RECURSIVE BindArgs(_, _, _, _, _, _)

\* IRStatement::Call, the loop binding the arguments (lines 432-436)
BindArgs(calleevars, l, g, formals, args, argidx) ==
    IF argidx > Len(args)
    THEN [err |-> NoErr, vars |-> calleevars]
    ELSE LET varg == ExprVal(l, g, args[argidx])
         IN IF ~IsOk(varg)
            THEN [err |-> varg.err, vars |-> calleevars]
            ELSE BindArgs(SetVar(calleevars, formals[argidx + 1], varg.val),
                          l, g, formals, args, argidx + 1)

\* the name of the block with a given id
NameOf(id) == CHOOSE b \in DOMAIN BlockId : BlockId[b] = id

\* IRStatement::Call up to the recursive run_code (lines 413-437): the
\* callee's block and its fresh locals
RunCall(l, c, g, code, rec, args) ==
    LET vcode == ExprVal(l, g, code)
        known == \E b \in BlockNames : BlockId[b] = vcode.val.val
        formals == BlockFormals[NameOf(vcode.val.val)]
        vrec == ExprVal(l, g, rec)
        bound == BindArgs(SetVar(EmptyLocals, formals[1], vrec.val),
                          l, g, formals, args, 1)
    IN IF ~IsOk(vcode) THEN [err |-> vcode.err, vars |-> l, cycles |-> c]
       ELSE IF vcode.val.tag # "CodePtr"
       THEN [err |-> Err("CallingNonCode", 0), vars |-> l, cycles |-> c]
       ELSE IF ~known
       THEN [err |-> Err("InvalidBlock", 0), vars |-> l, cycles |-> c]
       ELSE IF ~IsOk(vrec) THEN [err |-> vrec.err, vars |-> l, cycles |-> c]
       ELSE IF Len(formals) = 0             \* formals[0] is out of bounds
       THEN [err |-> Panic, vars |-> l, cycles |-> c]
       ELSE IF Len(args) + 1 # Len(formals)
       THEN [err |-> Err("BadCallArity", 0), vars |-> l, cycles |-> c]
       ELSE IF ~IsOk(bound) THEN [err |-> bound.err, vars |-> l, cycles |-> c]
       ELSE [err |-> NoErr, vars |-> bound.vars, cycles |-> Bump(c, "calls")]

----------------------------------------------------------------------------
(* The operands the instructions of a run are drawn from *)

AssignExprs == {BlockRef("bb"), Var("p")}

OpArgs == {Var("p"), GlobalRef("g")}

\* the offset from an object's first header word to its payload
HeaderBytes == 24

StoreBases == {Var("p"), GlobalRef("g")}

StoreVals == {IntLit(4), Var("q")}

LoadBases == {Var("p"), GlobalRef("g")}

CallCodes == {BlockRef("bb"), BlockRef("main")}

CallArgs == {<<Var("p")>>, <<>>}

----------------------------------------------------------------------------
(* Written-out programs *)

\* scenario S1: arithmetic return
S1Program ==
    [main |-> BasicBlock(<<>>,
                         <<StmtOp("x", IntLit(2), "+", IntLit(3)),
                           StmtOp("y", Var("x"), "*", IntLit(4))>>,
                         Ret(Var("y")))]

\* scenario S2: store/load round trip
S2Program ==
    [main |-> BasicBlock(<<>>,
                         <<StmtAlloc("p", 1),
                           StmtStore(Var("p"), IntLit(7)),
                           StmtLoad("v", Var("p"))>>,
                         Ret(Var("v")))]

\* scenario S4: phi from two predecessors, main branching on %c = c
S4Program(c) ==
    [main |-> BasicBlock(<<>>, <<StmtVarAssign("c", IntLit(c))>>,
                         If(Var("c"), "t", "f")),
     t |-> BasicBlock(<<>>, <<>>, Jump("join")),
     f |-> BasicBlock(<<>>, <<>>, Jump("join")),
     join |-> BasicBlock(<<>>,
                         <<StmtPhi("r", <<Opt("t", IntLit(1)),
                                          Opt("f", IntLit(2))>>)>>,
                         Ret(Var("r")))]

\* scenario S6: bad call arity
S6Program ==
    [main |-> BasicBlock(<<>>,
                         <<StmtCall("r", BlockRef("bb"), Var("self"),
                                    <<IntLit(1), IntLit(2)>>)>>,
                         Ret(Var("r"))),
     bb |-> BasicBlock(<<"self", "x">>, <<>>, Ret(Var("x")))]

\* the terminators of main, the entries of the Phi of join, the instructions
\* of join and the terminators of join that the control-flow programs combine
MainNexts ==
    {If(Var("c"), "t", "f"), If(Var("u"), "t", "f"), If(Var("c"), "zz", "f"),
     Jump("join"), Jump("zz")}

PhiOpts ==
    { <<Opt("t", IntLit(1)), Opt("f", IntLit(2))>>,
      <<Opt("t", IntLit(1))>>,
      <<Opt("join", IntLit(4)), Opt("main", Var("c")), Opt("main", IntLit(5))>>,
      <<Opt("f", Var("u")), Opt("t", BlockRef("t"))>> }

JoinCalls == { <<>>, <<StmtCall("x", BlockRef("bb"), Var("c"), <<>>)>> }

JoinNexts == {Ret(Var("r")), Jump("join"), Fail}

\* a control-flow program: main sets %c and leaves by mainnext; t and f jump
\* to join; join runs an optional Call of bb and then a Phi; the callee bb
\* jumps to bret, which ends with its own Phi
FlowProgram(c, mainnext, calls, opts, joinnext) ==
    [main |-> BasicBlock(<<>>, <<StmtVarAssign("c", IntLit(c))>>, mainnext),
     t |-> BasicBlock(<<>>, <<StmtPrint(Var("c"))>>, Jump("join")),
     f |-> BasicBlock(<<>>, <<>>, Jump("join")),
     join |-> BasicBlock(<<"self">>, calls \o <<StmtPhi("r", opts)>>, joinnext),
     bb |-> BasicBlock(<<"self">>, <<>>, Jump("bret")),
     bret |-> BasicBlock(<<>>,
                         <<StmtPhi("y", <<Opt("bb", Var("self"))>>)>>,
                         Ret(Var("y")))]

FlowPrograms ==
    {FlowProgram(c, mainnext, calls, opts, joinnext) :
        c \in {0, 1}, mainnext \in MainNexts, calls \in JoinCalls,
        opts \in PhiOpts, joinnext \in JoinNexts}

\* a program whose main calls join, a block that starts with a Phi
PhiCalleeProgram ==
    [main |-> BasicBlock(<<>>,
                         <<StmtVarAssign("c", IntLit(1)),
                           StmtCall("r", BlockRef("join"), Var("c"), <<>>)>>,
                         Ret(Var("r"))),
     join |-> BasicBlock(<<"self">>,
                         <<StmtPhi("r", <<Opt("main", IntLit(1))>>)>>,
                         Ret(Var("r")))]

\* a round-trip program: store v at offset off of a fresh block, then w at
\* offset off2, and read offset off back
RoundTripProgram(off, v, off2, w) ==
    [main |-> BasicBlock(<<>>,
                         <<StmtAlloc("p", 2),
                           StmtSetElt(Var("p"), IntLit(off), v),
                           StmtOp("o", Var("p"), "+", IntLit(8 * off2)),
                           StmtStore(Var("o"), w),
                           StmtGetElt("v", Var("p"), IntLit(off))>>,
                         Ret(Var("v")))]

RoundTripPrograms ==
    {RoundTripProgram(off, v, off2, w) :
        off \in {0, 1}, v \in {IntLit(7), BlockRef("main")},
        off2 \in {0, 1, 2}, w \in {IntLit(9)}}

\* a program whose second local, @g + off, has a forwarding word only when
\* copies have been laid out at next_alloc: with off = 56 it is the
\* forwarding word of the copy of the first local's object, with off = 72
\* or 104 it is the payload slot of that copy
FreshRootProgram(off) ==
    [main |-> BasicBlock(<<>>,
                         <<StmtOp("p", GlobalRef("g"), "+", IntLit(24)),
                           StmtOp("q", GlobalRef("g"), "+", IntLit(off)),
                           StmtAlloc("x", 8)>>,
                         Ret(Var("x")))]

\* a program whose first local is 0 - 1, the operand of a second operator
WrapProgram(o, k) ==
    [main |-> BasicBlock(<<>>,
                         <<StmtOp("x", IntLit(0), "-", IntLit(1)),
                           StmtOp("y", Var("x"), o, IntLit(k))>>,
                         Ret(Var("y")))]

\* a program whose first local is 0 - k, the address of a memory instruction
WrapAddrProgram(k, ins) ==
    [main |-> BasicBlock(<<>>,
                         <<StmtOp("x", IntLit(0), "-", IntLit(k)), ins>>,
                         Ret(Var("x")))]

WrapPrograms ==
    {WrapProgram(o, k) : o \in {">", "<", "/", ">>", "<<", "&", "+", "*"},
                         k \in {0, 2, 64}}
        \cup {WrapAddrProgram(k, ins) :
                 k \in {1, 8},
                 ins \in {StmtLoad("v", Var("x")),
                          StmtStore(Var("x"), IntLit(7)),
                          StmtSetElt(Var("x"), IntLit(1), IntLit(7)),
                          StmtGetElt("v", Var("x"), IntLit(1))}}

Programs ==
    {S1Program, S2Program, S4Program(0), S4Program(1), S6Program,
     PhiCalleeProgram}
        \cup {FreshRootProgram(off) : off \in {56, 72, 104}}
        \cup FlowPrograms \cup RoundTripPrograms \cup WrapPrograms

----------------------------------------------------------------------------
(* run_prog and the steps of run_code *)

Running == [state |-> "running", err |-> NoErr, val |-> Data(0)]

Failed(e) == [state |-> "failed", err |-> e, val |-> Data(0)]

Returned(v) == [state |-> "returned", err |-> NoErr, val |-> v]

\* no instruction
NoStmt == Stmt("", "", <<>>, "", 0, <<>>)

\* the record of an executed instruction: its kind, the error it returned,
\* the memory and locals it started from, and what an Alloc did.  addr, val
\* and res are the arguments and the Ok value of a direct call of
\* mem_lookup or mem_store.
LastOf(name, e, mem, l, at) ==
    [instr |-> name, err |-> e, pre_m |-> mem, pre_locs |-> l, at |-> at,
     addr |-> 0, val |-> Data(0), res |-> Data(0),
     block |-> block, idx |-> idx, prev |-> prevblock, depth |-> Len(stack),
     pre_cycles |-> cycles, pre_stored |-> stored, ins |-> NoStmt]

\* run_prog (lines 575-587): Memory::new, then main with empty locals
Init ==
    \E vals \in GlobalChoices, cap \in Caps,
       pr \in {OpenProgram} \cup Programs :
        /\ m = MemoryNew(vals, cap)
        /\ globs = [g |-> FirstGlobal]
        /\ gvals = vals
        /\ locs = EmptyLocals
        /\ stack = <<>>
        /\ cycles = ZeroStats
        /\ outcome = Running
        /\ steps = 0
        /\ prog = pr
        /\ block = "main"
        /\ idx = 1
        /\ prevblock = None
        /\ stored = NoCells
        /\ last = LastOf("none", NoErr, MemoryNew(vals, cap), EmptyLocals,
                         AllocTrace(0, "", 0, 0, FALSE,
                                    MemoryNew(vals, cap), EmptyLocals))

\* an instruction can be executed: no error so far, main has not returned
CanStep ==
    /\ outcome.state = "running"
    /\ steps < (IF prog = OpenProgram THEN MaxSteps ELSE MaxProgSteps)

\* an instruction whose gc also rewrites the suspended callers' locals of
\* the same names
ApplyStoringScansAncestors(ins, eff, at, st) ==
    /\ m' = eff.m
    /\ locs' = eff.locs
    /\ cycles' = eff.cycles
    /\ outcome' = IF eff.err = NoErr THEN outcome ELSE Failed(eff.err)
    /\ steps' = steps + 1
    /\ idx' = idx + 1
    /\ stored' = st
    /\ last' = [LastOf(ins.kind, eff.err, m, locs, at) EXCEPT !.ins = ins]
    /\ stack' = [i \in DOMAIN stack |->
                   [stack[i] EXCEPT !.locs =
                       [x \in DOMAIN stack[i].locs |->
                           IF at.gc_calls > 0 /\ x \in DOMAIN at.gc_locs
                           THEN at.gc_locs[x]
                           ELSE stack[i].locs[x]]]]
    /\ UNCHANGED <<globs, gvals, prog, block, prevblock>>

\* an instruction whose error leaves the run going
ApplyStoringKeepsRunning(ins, eff, at, st) ==
    /\ m' = eff.m
    /\ locs' = eff.locs
    /\ cycles' = eff.cycles
    /\ outcome' = outcome
    /\ steps' = steps + 1
    /\ idx' = idx + 1
    /\ stored' = st
    /\ last' = [LastOf(ins.kind, eff.err, m, locs, at) EXCEPT !.ins = ins]
    /\ UNCHANGED <<globs, gvals, stack, prog, block, prevblock>>

\* one instruction of the running activation took effect eff (an error is
\* returned by the `?` of line 535 and of line 438 in every ancestor) and
\* left the record st of stored values
ApplyStoring(ins, eff, at, st) ==
    /\ m' = eff.m
    /\ locs' = eff.locs
    /\ cycles' = eff.cycles
    /\ outcome' = IF eff.err = NoErr THEN outcome ELSE Failed(eff.err)
    /\ steps' = steps + 1
    /\ idx' = idx + 1
    /\ stored' = st
    /\ last' = [LastOf(ins.kind, eff.err, m, locs, at) EXCEPT !.ins = ins]
    /\ UNCHANGED <<globs, gvals, stack, prog, block, prevblock>>

\* one instruction other than Store and SetElt took effect; a gc ends the
\* record of stored values
Apply(ins, eff, at) ==
    ApplyStoring(ins, eff, at, IF at.gc_calls > 0 THEN NoCells ELSE stored)

NoAlloc == AllocTrace(0, "", 0, 0, FALSE, m, locs)

\* IRStatement::Alloc
DoAlloc(v, n) ==
    \E order \in Orders(DOMAIN locs), oc \in BOOLEAN :
        LET r == RunAlloc(m, locs, cycles, v, n, order, oc)
        IN Apply(StmtAlloc(v, n), r.eff, r.at)

\* IRStatement::VarAssign
DoVarAssign(var, e) ==
    Apply(StmtVarAssign(var, e), RunVarAssign(m, locs, cycles, globs, var, e), NoAlloc)

\* IRStatement::Load
DoLoad(dest, e) ==
    Apply(StmtLoad(dest, e), RunLoad(m, locs, cycles, globs, dest, e), NoAlloc)

\* IRStatement::Store
DoStore(e, ve) ==
    LET eff == RunStore(m, locs, cycles, globs, e, ve)
    IN ApplyStoring(StmtStore(e, ve), eff, NoAlloc,
                    IF eff.err = NoErr
                    THEN MapInsert(stored, ExprVal(locs, globs, e).val.val,
                                   ExprVal(locs, globs, ve).val)
                    ELSE stored)

\* IRStatement::SetElt
DoSetElt(base, off, val) ==
    \E oc \in BOOLEAN :
        LET eff == RunSetElt(m, locs, cycles, globs, base, off, val, oc)
        IN ApplyStoring(StmtSetElt(base, off, val), eff, NoAlloc,
                        IF eff.err = NoErr
                        THEN MapInsert(stored,
                                       EltAddr(ExprVal(locs, globs, base).val,
                                               ExprVal(locs, globs, off).val,
                                               oc).val.val,
                                       ExprVal(locs, globs, val).val)
                        ELSE stored)

\* IRStatement::GetElt
DoGetElt(dest, e, off) ==
    \E oc \in BOOLEAN :
        Apply(StmtGetElt(dest, e, off),
              RunGetElt(m, locs, cycles, globs, dest, e, off, oc), NoAlloc)

\* IRStatement::Op
DoOp(v, e1, o, e2) ==
    \E oc \in BOOLEAN :
        Apply(StmtOp(v, e1, o, e2),
              RunOp(m, locs, cycles, globs, v, e1, o, e2, oc), NoAlloc)

\* IRStatement::Call: on Ok the caller is suspended and the callee runs its
\* block from the first instruction with no predecessor (line 351)
DoCall(dest, code, rec, args) ==
    /\ Len(stack) < MaxDepth
    /\ LET r == RunCall(locs, cycles, globs, code, rec, args)
       IN /\ cycles' = r.cycles
          /\ steps' = steps + 1
          /\ last' = [LastOf("Call", r.err, m, locs, NoAlloc)
                        EXCEPT !.ins = StmtCall(dest, code, rec, args)]
          /\ IF r.err = NoErr
             THEN /\ stack' = Append(stack,
                                     [locs |-> locs, dest |-> dest,
                                      block |-> block, idx |-> idx + 1,
                                      prevblock |-> prevblock])
                  /\ locs' = r.vars
                  /\ block' = NameOf(ExprVal(locs, globs, code).val.val)
                  /\ idx' = 1
                  /\ prevblock' = None
                  /\ outcome' = outcome
             ELSE /\ outcome' = Failed(r.err)
                  /\ UNCHANGED <<stack, locs, block, idx, prevblock>>
          /\ UNCHANGED <<m, globs, gvals, prog, stored>>

\* ControlXfer::Ret (lines 542-546), then line 573 and, in a callee, the
\* caller's set_var of line 439
DoRet(e) ==
    LET result == ExprVal(locs, globs, e)
    IN /\ steps' = steps + 1
       /\ last' = LastOf("Ret", result.err, m, locs, NoAlloc)
       /\ IF ~IsOk(result)
          THEN /\ outcome' = Failed(result.err)
               /\ UNCHANGED <<locs, stack, cycles, block, idx, prevblock>>
          ELSE /\ cycles' = Bump(cycles, "rets")
               /\ IF stack = <<>>
                  THEN /\ outcome' = Returned(result.val)
                       /\ UNCHANGED <<locs, stack, block, idx, prevblock>>
                  ELSE /\ locs' = SetVar(stack[Len(stack)].locs,
                                         stack[Len(stack)].dest, result.val)
                       /\ block' = stack[Len(stack)].block
                       /\ idx' = stack[Len(stack)].idx
                       /\ prevblock' = stack[Len(stack)].prevblock
                       /\ stack' = SubSeq(stack, 1, Len(stack) - 1)
                       /\ outcome' = outcome
       /\ UNCHANGED <<m, globs, gvals, prog, stored>>

\* IRStatement::Print
DoPrint(e) ==
    Apply(StmtPrint(e), RunPrint(m, locs, cycles, globs, e), NoAlloc)

\* IRStatement::Phi
DoPhi(dest, opts) ==
    Apply(StmtPhi(dest, opts),
          RunPhi(m, locs, cycles, globs, prevblock, dest, opts), NoAlloc)

\* ControlXfer::Fail (line 541)
DoFail ==
    /\ outcome' = Failed(Panic)
    /\ steps' = steps + 1
    /\ last' = LastOf("Fail", Panic, m, locs, NoAlloc)
    /\ UNCHANGED <<m, globs, gvals, locs, stack, cycles, prog, block, idx,
                   prevblock, stored>>

\* a transfer that leaves the predecessor as it is when a block jumps to itself
TransferToSkipsSelfLoop(name, b, counter) ==
    /\ steps' = steps + 1
    /\ IF b \in BlockNames
       THEN /\ cycles' = Bump(cycles, counter)
            /\ prevblock' = IF b = block THEN prevblock ELSE Some(block)
            /\ block' = b
            /\ idx' = 1
            /\ outcome' = outcome
            /\ last' = LastOf(name, NoErr, m, locs, NoAlloc)
       ELSE /\ outcome' = Failed(Err("InvalidBlockInControl", 0))
            /\ last' = LastOf(name, Err("InvalidBlockInControl", 0), m, locs,
                              NoAlloc)
            /\ UNCHANGED <<cycles, prevblock, block, idx>>
    /\ UNCHANGED <<m, globs, gvals, locs, stack, prog, stored>>

\* the transfer to block b of ControlXfer::Jump and ControlXfer::If
\* (lines 548-554 and 563-569): counter is the one the terminator bumps
TransferTo(name, b, counter) ==
    /\ steps' = steps + 1
    /\ IF b \in BlockNames
       THEN /\ cycles' = Bump(cycles, counter)
            /\ prevblock' = Some(block)
            /\ block' = b
            /\ idx' = 1
            /\ outcome' = outcome
            /\ last' = LastOf(name, NoErr, m, locs, NoAlloc)
       ELSE /\ outcome' = Failed(Err("InvalidBlockInControl", 0))
            /\ last' = LastOf(name, Err("InvalidBlockInControl", 0), m, locs,
                              NoAlloc)
            /\ UNCHANGED <<cycles, prevblock, block, idx>>
    /\ UNCHANGED <<m, globs, gvals, locs, stack, prog, stored>>

\* ControlXfer::Jump (lines 547-555)
DoJump(b) == TransferTo("Jump", b, "unconditional_branches")

\* ControlXfer::If (lines 556-570)
DoIf(cond, tblock, fblock) ==
    LET vcond == ExprVal(locs, globs, cond)
    IN IF ~IsOk(vcond)
       THEN /\ outcome' = Failed(vcond.err)
            /\ steps' = steps + 1
            /\ last' = LastOf("If", vcond.err, m, locs, NoAlloc)
            /\ UNCHANGED <<m, globs, gvals, locs, stack, cycles, prog, block,
                           idx, prevblock, stored>>
       ELSE TransferTo("If", IF vcond.val = Data(0) THEN fblock ELSE tblock,
                       "conditional_branches")

(* A run whose instructions are drawn step by step from the operands above *)

Drawn == CanStep /\ prog = OpenProgram

ExecAlloc == Drawn /\ \E v \in Vars, n \in AllocSlots : DoAlloc(v, n)

ExecVarAssign == Drawn /\ \E var \in Vars, e \in AssignExprs : DoVarAssign(var, e)

ExecLoad == Drawn /\ \E e \in LoadBases : DoLoad("q", e)

ExecStore == Drawn /\ \E e \in StoreBases, ve \in StoreVals : DoStore(e, ve)

ExecSetElt == Drawn /\ \E base \in StoreBases : DoSetElt(base, IntLit(1), IntLit(4))

ExecGetElt == Drawn /\ DoGetElt("q", Var("p"), IntLit(1))

ExecOp ==
    Drawn /\ \E v \in Vars, e1 \in OpArgs : DoOp(v, e1, "+", IntLit(HeaderBytes))

ExecCall ==
    Drawn /\ \E code \in CallCodes, args \in CallArgs :
                  DoCall("q", code, Var("p"), args)

XferRet == Drawn /\ DoRet(Var("p"))

(* A run of a written-out program: the instruction at idx of cur_block, *)
(* and after the last instruction the terminator                         *)

CurInstr == prog[block].instrs[idx]

AtInstr(kind) ==
    /\ CanStep
    /\ prog # OpenProgram
    /\ idx <= Len(prog[block].instrs)
    /\ CurInstr.kind = kind

AtXfer(kind) ==
    /\ CanStep
    /\ prog # OpenProgram
    /\ idx = Len(prog[block].instrs) + 1
    /\ prog[block].next.kind = kind

StepPrint == AtInstr("Print") /\ DoPrint(CurInstr.es[1])

StepAlloc == AtInstr("Alloc") /\ DoAlloc(CurInstr.lhs, CurInstr.n)

StepVarAssign == AtInstr("VarAssign") /\ DoVarAssign(CurInstr.lhs, CurInstr.es[1])

StepPhi == AtInstr("Phi") /\ DoPhi(CurInstr.lhs, CurInstr.opts)

StepCall ==
    /\ AtInstr("Call")
    /\ DoCall(CurInstr.lhs, CurInstr.es[1], CurInstr.es[2],
              SubSeq(CurInstr.es, 3, Len(CurInstr.es)))

StepSetElt ==
    AtInstr("SetElt") /\ DoSetElt(CurInstr.es[1], CurInstr.es[2], CurInstr.es[3])

StepGetElt ==
    AtInstr("GetElt") /\ DoGetElt(CurInstr.lhs, CurInstr.es[1], CurInstr.es[2])

StepLoad == AtInstr("Load") /\ DoLoad(CurInstr.lhs, CurInstr.es[1])

StepStore == AtInstr("Store") /\ DoStore(CurInstr.es[1], CurInstr.es[2])

StepOp ==
    /\ AtInstr("Op")
    /\ DoOp(CurInstr.lhs, CurInstr.es[1], CurInstr.op, CurInstr.es[2])

StepFail == AtXfer("Fail") /\ DoFail

StepRet == AtXfer("Ret") /\ DoRet(prog[block].next.e)

StepJump == AtXfer("Jump") /\ DoJump(prog[block].next.t)

StepIf ==
    /\ AtXfer("If")
    /\ DoIf(prog[block].next.e, prog[block].next.t, prog[block].next.f)

Next ==
    \/ ExecAlloc
    \/ ExecVarAssign
    \/ ExecLoad
    \/ ExecStore
    \/ ExecSetElt
    \/ ExecGetElt
    \/ ExecOp
    \/ ExecCall
    \/ XferRet
    \/ StepPrint
    \/ StepAlloc
    \/ StepVarAssign
    \/ StepPhi
    \/ StepCall
    \/ StepSetElt
    \/ StepGetElt
    \/ StepLoad
    \/ StepStore
    \/ StepOp
    \/ StepFail
    \/ StepRet
    \/ StepJump
    \/ StepIf

Spec == Init /\ [][Next]_vars

----------------------------------------------------------------------------
(* mem_lookup and mem_store as functions of (memory, address, value): a    *)
(* second specification that starts from any well-formed Memory and calls  *)
(* the two on any address.                                                 *)

\* global cells of the memories drawn
MaxGlobalCells == 1

\* mutable cells of the memories drawn
MaxHeapCells == 2

\* the values a cell is drawn from
CellVals == {Data(7), CodePtr(1), GCTombstone}

\* the word addresses from a up to (not including) b
Words(a, b) == {x \in a .. (b - 1) : x % 8 = 0 /\ x >= a}

\* the memories with first_writable <= base <= next_alloc whose global cells
\* are all present and whose other cells lie below next_alloc
MemStates ==
    UNION { UNION { UNION {
      { [map |-> f, first_writable |-> fw, base |-> bs, next_alloc |-> na,
         slot_cap |-> None, slots_alloced |-> 0] :
          f \in UNION { [Words(FirstGlobal, fw) \cup D -> CellVals] :
                          D \in SUBSET Words(fw, na) } } :
        na \in {bs + 8 * k : k \in 0 .. (MaxHeapCells - (bs - fw) \div 8)} } :
        bs \in {fw + 8 * k : k \in 0 .. MaxHeapCells} } :
        fw \in {FirstGlobal + 8 * k : k \in 0 .. MaxGlobalCells} }

\* the addresses probed: every byte address up to one word past next_alloc
ProbeAddrs == 0 .. (FirstGlobal + 8 * (MaxGlobalCells + MaxHeapCells) + 8)

InitMem ==
    /\ m \in MemStates
    /\ globs = [g |-> FirstGlobal]
    /\ gvals = <<>>
    /\ locs = EmptyLocals
    /\ stack = <<>>
    /\ cycles = ZeroStats
    /\ outcome = Running
    /\ steps = 0
    /\ prog = OpenProgram
    /\ block = "main"
    /\ idx = 1
    /\ prevblock = None
    /\ stored = NoCells
    /\ last = LastOf("none", NoErr, m, EmptyLocals,
                     AllocTrace(0, "", 0, 0, FALSE, m, EmptyLocals))

\* a call of Memory::mem_lookup on the memory drawn
CallMemLookup ==
    /\ last.instr = "none"
    /\ \E addr \in ProbeAddrs :
        LET r == MemLookup(m, addr)
        IN /\ last' = [LastOf("mem_lookup", r.err, m, locs, NoAlloc)
                         EXCEPT !.addr = addr, !.res = r.val]
           /\ UNCHANGED <<m, globs, gvals, locs, stack, cycles, outcome, steps,
                          prog, block, idx, prevblock, stored>>

\* a call of Memory::mem_store on the memory drawn
CallMemStore ==
    /\ last.instr = "none"
    /\ \E addr \in ProbeAddrs, v \in {Data(9), CodePtr(2)} :
        LET r == MemStore(m, addr, v)
        IN /\ m' = r.mem
           /\ last' = [LastOf("mem_store", r.err, m, locs, NoAlloc)
                         EXCEPT !.addr = addr, !.val = v, !.res = r.val]
           /\ UNCHANGED <<globs, gvals, locs, stack, cycles, outcome, steps,
                          prog, block, idx, prevblock, stored>>

NextMem ==
    \/ CallMemLookup
    \/ CallMemStore

SpecMem == InitMem /\ [][NextMem]_vars

----------------------------------------------------------------------------
(* Objects as the collector reads them, for the statements below *)

\* how deep the statements follow reference slots
GraphDepth == 3

\* bit i of a slot map
SlotBit(slotmap, i) == (slotmap \div Pow2(i)) % 2

\* the header of the object with payload address p is present, holds Data
\* words, is not forwarded and counts at least its three header words
HasHeader(mem, p) ==
    /\ {p - 24, p - 16, p - 8} \subseteq DOMAIN mem.map
    /\ \A a \in {p - 24, p - 16, p - 8} : mem.map[a].tag = "Data"
    /\ mem.map[p - 16] = Data(0)
    /\ mem.map[p - 24].val >= 3

\* the payload addresses of the object at p
Payload(mem, p) == {p + 8 * i : i \in 0 .. (mem.map[p - 24].val - 4)}

RECURSIVE IsObject(_, _, _)

\* p is the payload address of a well-formed object whose reference slots
\* lead to well-formed objects, followed d levels deep
IsObject(mem, p, d) ==
    /\ d > 0
    /\ HasHeader(mem, p)
    /\ Payload(mem, p) \subseteq DOMAIN mem.map
    /\ \A i \in 0 .. (mem.map[p - 24].val - 4) :
          /\ mem.map[p + 8 * i].tag # "GCTombstone"
          /\ SlotBit(mem.map[p - 8].val, i) = 1 =>
                /\ mem.map[p + 8 * i].tag = "Data"
                /\ IsObject(mem, mem.map[p + 8 * i].val, d - 1)

RECURSIVE SumOver(_, _, _)

\* the sum of f[x] over the set S of a function's domain
SumOver(f, S, acc) ==
    IF S = {} THEN acc
    ELSE LET x == CHOOSE y \in S : TRUE
         IN SumOver(f, S \ {x}, acc + f[x])

RECURSIVE ObjectSlots(_, _)

\* the slots of the object at p and of the objects its reference slots lead to
ObjectSlots(mem, p) ==
    LET size == mem.map[p - 24].val
        refs == {i \in 0 .. (size - 4) : SlotBit(mem.map[p - 8].val, i) = 1}
    IN size + SumOver([i \in refs |-> ObjectSlots(mem, mem.map[p + 8 * i].val)],
                      refs, 0)

\* every local is a CodePtr or the address of a well-formed object, and the
\* objects the locals lead to fit into the cap
ValidRoots(mem, l) ==
    LET roots == {x \in DOMAIN l : l[x].tag = "Data"}
    IN /\ \A x \in DOMAIN l : l[x].tag # "GCTombstone"
       /\ \A x \in roots : IsObject(mem, l[x].val, GraphDepth)
       /\ mem.slot_cap # None
       /\ SumOver([x \in roots |-> ObjectSlots(mem, l[x].val)], roots, 0)
             <= mem.slot_cap[1]

RECURSIVE Equivalent(_, _, _, _, _)

\* the object at a in memory pre and the object at b in memory post have the
\* same alloc-size and slot map, equal scalar slots and equivalent references
Equivalent(pre, a, post, b, d) ==
    /\ d > 0
    /\ {b - 24, b - 8} \subseteq DOMAIN post.map
    /\ post.map[b - 24] = pre.map[a - 24]
    /\ post.map[b - 8] = pre.map[a - 8]
    /\ \A i \in 0 .. (pre.map[a - 24].val - 4) :
          /\ b + 8 * i \in DOMAIN post.map
          /\ IF SlotBit(pre.map[a - 8].val, i) = 1
             THEN /\ post.map[b + 8 * i].tag = "Data"
                  /\ Equivalent(pre, pre.map[a + 8 * i].val,
                                post, post.map[b + 8 * i].val, d - 1)
             ELSE post.map[b + 8 * i] = pre.map[a + 8 * i]

\* the cells of the current semispace
SemispaceCells(mem) == {a \in DOMAIN mem.map : a >= mem.base}

----------------------------------------------------------------------------
(* The claims *)

\* C1: with a slot cap configured and no gc since the start of the current
\* semispace, the slots alloc has handed out never exceed the cap (an Alloc
\* that would exceed it gets GCRequired instead of succeeding).
C1_SlotsWithinCap ==
    (m.slot_cap # None /\ last.at.gc_calls = 0)
        => Cardinality(SemispaceCells(m)) <= m.slot_cap[1]

\* C2: a gc invoked while the semispace holds cells created by alloc, with
\* every local a valid root and the live objects within the cap, returns Ok;
\* afterwards every cell of the old range is a GCTombstone, base is the old
\* next_alloc, and mem_lookup of an old address is ReadFromGCedData.
C2_GcEvacuatesOldRange ==
    (/\ last.at.gc_calls = 1
     /\ SemispaceCells(last.pre_m) # {}
     /\ ValidRoots(last.pre_m, last.pre_locs))
        => /\ last.at.gc_ok
           /\ last.at.gc_m.base = last.pre_m.next_alloc
           /\ \A a \in SemispaceCells(last.pre_m) :
                 /\ last.at.gc_m.map[a] = GCTombstone
                 /\ MemLookup(last.at.gc_m, a).err.kind = "ReadFromGCedData"

\* C3: after a gc that returned Ok, every local that held the address of a
\* well-formed object holds the address of an equivalent object: same
\* alloc-size, same slot map, equal scalar slots, equivalent reference slots.
C3_GcPreservesObjects ==
    last.at.gc_ok =>
        \A x \in DOMAIN last.pre_locs :
            (/\ last.pre_locs[x].tag = "Data"
             /\ IsObject(last.pre_m, last.pre_locs[x].val, GraphDepth))
                => /\ last.at.gc_locs[x].tag = "Data"
                   /\ Equivalent(last.pre_m, last.pre_locs[x].val,
                                 last.at.gc_m, last.at.gc_locs[x].val,
                                 GraphDepth)

\* C3 witness: a gc returned Ok with a local that held an object whose first
\* payload slot is a reference
C3_Witness ==
    /\ last.at.gc_ok
    /\ \E x \in DOMAIN last.pre_locs :
          /\ last.pre_locs[x].tag = "Data"
          /\ IsObject(last.pre_m, last.pre_locs[x].val, GraphDepth)
          /\ SlotBit(last.pre_m.map[last.pre_locs[x].val - 8].val, 0) = 1

\* C4 as claimed: after a gc that returned Ok no scanned local holds
\* GCTombstone and every Data(p) held by a scanned local has p >= base.
C4_LocalsInNewSemispace ==
    last.at.gc_ok =>
        \A x \in DOMAIN last.at.gc_locs :
            /\ last.at.gc_locs[x].tag # "GCTombstone"
            /\ last.at.gc_locs[x].tag = "Data"
                  => last.at.gc_locs[x].val >= last.at.gc_m.base

\* C4 as amended: after a gc that returned Ok no scanned local holds
\* GCTombstone, and every Data local whose forwarding word (the cell at its
\* old address - 16) was Data(0) before the gc holds an address p >= base.
C4_CopiedLocalsInNewSemispace ==
    last.at.gc_ok =>
        \A x \in DOMAIN last.at.gc_locs :
            /\ last.at.gc_locs[x].tag # "GCTombstone"
            /\ (/\ last.pre_locs[x].tag = "Data"
                /\ last.pre_locs[x].val - 16 \in DOMAIN last.pre_m.map
                /\ last.pre_m.map[last.pre_locs[x].val - 16] = Data(0))
                  => /\ last.at.gc_locs[x].tag = "Data"
                     /\ last.at.gc_locs[x].val >= last.at.gc_m.base

\* C4 witness: a gc returned Ok and rewrote a Data local whose forwarding
\* word was 0
C4_Witness ==
    /\ last.at.gc_ok
    /\ \E x \in DOMAIN last.pre_locs :
          /\ last.pre_locs[x].tag = "Data"
          /\ last.pre_locs[x].val - 16 \in DOMAIN last.pre_m.map
          /\ last.pre_m.map[last.pre_locs[x].val - 16] = Data(0)
          /\ last.at.gc_locs[x] # last.pre_locs[x]

\* C5 as claimed: an Alloc whose first alloc returns GCRequired runs gc once
\* and calls alloc a second time, a GCRequired of the retry becomes
\* OutOfMemory, and neither the instruction nor the run returns GCRequired.
C5_GcThenRetryOnce ==
    /\ outcome.err.kind # "GCRequired"
    /\ (last.instr = "Alloc" /\ last.at.first = "GCRequired")
          => /\ last.at.gc_calls = 1
             /\ last.at.alloc_calls = 2
             /\ last.err.kind # "GCRequired"
             /\ Alloc(last.at.gc_m, last.at.n).err.kind = "GCRequired"
                   => last.err.kind = "OutOfMemory"

\* C5 as amended: an Alloc whose first alloc returns GCRequired runs gc once;
\* when gc returns Ok it calls alloc a second time and a GCRequired of that
\* retry becomes OutOfMemory; when gc returns an error, that error is the
\* result and alloc is not called again.  Neither the instruction nor the
\* run returns GCRequired.
C5_GcThenRetryIfGcOk ==
    /\ outcome.err.kind # "GCRequired"
    /\ (last.instr = "Alloc" /\ last.at.first = "GCRequired")
          => /\ last.at.gc_calls = 1
             /\ last.err.kind # "GCRequired"
             /\ IF last.at.gc_ok
                THEN /\ last.at.alloc_calls = 2
                     /\ Alloc(last.at.gc_m, last.at.n).err.kind = "GCRequired"
                           => last.err.kind = "OutOfMemory"
                ELSE /\ last.at.alloc_calls = 1
                     /\ last.err # NoErr
                     /\ outcome.err = last.err

\* C5 witness: gc returned Ok, the retry returned GCRequired, and the
\* instruction returned OutOfMemory
C5_Witness ==
    /\ last.instr = "Alloc"
    /\ last.at.first = "GCRequired"
    /\ last.at.gc_ok
    /\ last.at.alloc_calls = 2
    /\ outcome.err.kind = "OutOfMemory"

\* the outcome of mem_lookup by the first matching check, in the order
\* stated: null, evacuated region, alignment, absent, tombstone, value
LookupByOrder(mem, addr) ==
    CASE addr = 0 -> [err |-> Err("NullPointer", 0), val |-> Data(0)]
      [] addr # 0 /\ mem.first_writable <= addr /\ addr < mem.base ->
            [err |-> Err("ReadFromGCedData", 0), val |-> Data(0)]
      [] addr # 0 /\ ~(mem.first_writable <= addr /\ addr < mem.base)
         /\ addr % 8 # 0 ->
            [err |-> Err("UnalignedAccess", addr), val |-> Data(0)]
      [] OTHER ->
            IF addr \notin DOMAIN mem.map
            THEN [err |-> Err("UnallocatedAddressRead", addr), val |-> Data(0)]
            ELSE IF mem.map[addr] = GCTombstone
            THEN [err |-> Err("AccessingDeallocatedAddress", addr),
                  val |-> Data(0)]
            ELSE [err |-> NoErr, val |-> mem.map[addr]]

\* C6: mem_lookup returns the outcome of the first matching check in the
\* stated order and leaves the memory as it was.
C6_LookupOrder ==
    last.instr = "mem_lookup" =>
        /\ [err |-> last.err, val |-> last.res]
              = LookupByOrder(last.pre_m, last.addr)
        /\ m = last.pre_m

\* C6 witness: a lookup of an unaligned address inside the evacuated region
\* returned ReadFromGCedData
C6_Witness ==
    /\ last.instr = "mem_lookup"
    /\ last.addr % 8 # 0
    /\ last.err.kind = "ReadFromGCedData"

\* the error of mem_store by the first matching check, in the order stated:
\* null, globals, evacuated region, alignment, absent, tombstone
StoreErrorByOrder(mem, addr) ==
    CASE addr = 0 -> Err("NullPointer", 0)
      [] addr # 0 /\ addr < mem.first_writable -> Err("WriteToImmutableData", 0)
      [] addr >= mem.first_writable /\ addr < mem.base ->
            Err("WriteToGCedData", 0)
      [] addr # 0 /\ addr >= mem.first_writable /\ addr >= mem.base
         /\ addr % 8 # 0 -> Err("UnalignedAccess", addr)
      [] OTHER ->
            IF addr \notin DOMAIN mem.map
            THEN Err("UnallocatedAddressWrite", addr)
            ELSE IF mem.map[addr] = GCTombstone
            THEN Err("AccessingDeallocatedAddress", addr)
            ELSE NoErr

\* C7: mem_store returns the error of the first matching check in the stated
\* order and then leaves the memory as it was; otherwise it overwrites that
\* one cell and returns the value the cell held.
C7_StoreOrder ==
    last.instr = "mem_store" =>
        /\ last.err = StoreErrorByOrder(last.pre_m, last.addr)
        /\ IF last.err = NoErr
           THEN /\ last.res = last.pre_m.map[last.addr]
                /\ m = [last.pre_m EXCEPT !.map[last.addr] = last.val]
           ELSE m = last.pre_m

\* C7 witness: a store overwrote a cell that held another value
C7_Witness ==
    /\ last.instr = "mem_store"
    /\ last.err = NoErr
    /\ m # last.pre_m
    /\ m.map[last.addr] = last.val

\* C8: every cell in [32, first_writable) holds the value Memory::new wrote,
\* and first_writable and the globals map are as Memory::new left them.
C8_GlobalsImmutable ==
    /\ m.first_writable = FirstGlobal + 8 * Len(gvals)
    /\ globs = [g |-> FirstGlobal]
    /\ \A i \in 1 .. Len(gvals) :
          /\ FirstGlobal + 8 * (i - 1) \in DOMAIN m.map
          /\ m.map[FirstGlobal + 8 * (i - 1)] = gvals[i]

\* C8 witness: a Store or SetElt addressed a global cell
C8_Witness ==
    /\ last.instr \in {"Store", "SetElt"}
    /\ last.err.kind = "WriteToImmutableData"

\* C9: every cell holding GCTombstone lies in [first_writable, base), and no
\* Locals map of any activation holds GCTombstone.
C9_TombstonesOnlyEvacuated ==
    /\ \A a \in DOMAIN m.map :
          m.map[a] = GCTombstone => (m.first_writable <= a /\ a < m.base)
    /\ \A x \in DOMAIN locs : locs[x] # GCTombstone
    /\ \A k \in 1 .. Len(stack) :
          \A x \in DOMAIN stack[k].locs : stack[k].locs[x] # GCTombstone

\* C9 witness: a gc run by a callee returned Ok and rewrote a Data local
C9_Witness ==
    /\ last.at.gc_ok
    /\ Len(stack) > 0
    /\ \E x \in DOMAIN locs : locs[x].tag = "Data" /\ locs[x].val >= m.base

\* C10: first_writable <= base <= next_alloc.
C10_CursorOrder ==
    /\ m.first_writable <= m.base
    /\ m.base <= m.next_alloc

\* C10 witness: alloc and then a gc that reserved cells have moved the bump
\* pointer
C10_Witness ==
    /\ last.at.gc_calls = 1
    /\ last.at.gc_m.slots_alloced > 0
    /\ last.pre_m.next_alloc > last.pre_m.base
    /\ m.next_alloc > last.pre_m.next_alloc

\* C11: every address that is a key of the cells map is a multiple of 8.
C11_KeysAligned == \A a \in DOMAIN m.map : a % 8 = 0

\* C11 witness: alloc has inserted cells and then reserve, called by a gc,
\* has inserted more
C11_Witness ==
    /\ last.instr = "Alloc"
    /\ last.at.gc_calls = 1
    /\ SemispaceCells(last.pre_m) # {}
    /\ DOMAIN last.at.gc_m.map # DOMAIN last.pre_m.map

\* a Call instruction whose code operand evaluated, before it ran, to a
\* CodePtr naming a block of the program
CallNamesBlock(ins, l) ==
    /\ IsOk(ExprVal(l, globs, ins.es[1]))
    /\ ExprVal(l, globs, ins.es[1]).val.tag = "CodePtr"
    /\ NameOf(ExprVal(l, globs, ins.es[1]).val.val) \in BlockNames

\* the formals of the block a Call names
CalleeFormals(ins, l) ==
    prog[NameOf(ExprVal(l, globs, ins.es[1]).val.val)].formals

\* C12: a Call whose code operand names an existing block and whose
\* argument count plus one differs from the number of the callee's formals
\* returns BadCallArity and does not enter the callee; so does the Call of
\* scenario S6.
C12_BadArityReported ==
    /\ (/\ last.instr = "Call"
        /\ CallNamesBlock(last.ins, last.pre_locs)
        /\ IsOk(ExprVal(last.pre_locs, globs, last.ins.es[2]))
        /\ (Len(last.ins.es) - 2) + 1
              # Len(CalleeFormals(last.ins, last.pre_locs)))
          => /\ last.err.kind = "BadCallArity"
             /\ Len(stack) = last.depth
             /\ block = last.block
    /\ (prog = S6Program /\ last.instr = "Call")
          => last.err.kind = "BadCallArity"

\* the instruction of a written-out program that was executed last
LastStmt == prog[last.block].instrs[last.idx]

\* the entries of a Phi that name the block pred
EntriesOf(opts, pred) == {k \in 1 .. Len(opts) : opts[k].bname = pred}

\* the first of a non-empty set of positions
FirstOf(S) == CHOOSE k \in S : \A j \in S : k <= j

\* what a Phi did, given the predecessor prev it found
PhiAsStated(ins, prev) ==
    IF prev = None
    THEN last.err.kind = "PhiInFirstBlock" /\ locs = last.pre_locs
    ELSE IF EntriesOf(ins.opts, prev[1]) = {}
    THEN last.err.kind = "BadPhiPredecessor" /\ locs = last.pre_locs
    ELSE LET src == ins.opts[FirstOf(EntriesOf(ins.opts, prev[1]))].src
             v == ExprVal(last.pre_locs, globs, src)
         IN IF IsOk(v)
            THEN last.err = NoErr /\ locs = SetVar(last.pre_locs, ins.lhs, v.val)
            ELSE last.err = v.err /\ locs = last.pre_locs

\* C13: a Phi binds its destination to the source paired with the
\* predecessor of the current activation, returns PhiInFirstBlock when the
\* activation has made no transfer and BadPhiPredecessor when no entry names
\* the predecessor; every Jump and If that transfers sets the predecessor to
\* the name of the block it leaves, a callee starts without a predecessor, a
\* return restores the caller's, and nothing else changes it.
C13_PhiFollowsPredecessor ==
    /\ [](/\ last.instr = "Phi" => PhiAsStated(LastStmt, last.prev)
          /\ (last.instr \in {"Jump", "If"} /\ last.err = NoErr)
                => prevblock = Some(last.block)
          /\ (last.instr = "Call" /\ last.err = NoErr) => prevblock = None
          /\ last.instr \notin {"Jump", "If", "Call", "Ret"}
                => prevblock = last.prev)
    /\ [][/\ Len(stack') > Len(stack)
                => stack'[Len(stack')].prevblock = prevblock
          /\ Len(stack') < Len(stack)
                => prevblock' = stack[Len(stack)].prevblock]_vars

\* C13 witness: after a transfer into join and a Call in join whose callee
\* made a transfer of its own and returned, the Phi of join bound its
\* destination
C13_Witness ==
    /\ last.instr = "Phi"
    /\ last.err = NoErr
    /\ last.idx = 2
    /\ last.prev # None
    /\ cycles.calls = 1
    /\ cycles.rets = 1
    /\ "r" \in DOMAIN locs

\* C14 as claimed: scenario S1 returns Data(20) and ends with fast = 2,
\* slow = 1, ret = 1.
C14_S1TwoFast ==
    (prog = S1Program /\ outcome.state = "returned")
        => /\ outcome.val = Data(20)
           /\ cycles.fast_alu_ops = 2
           /\ cycles.slow_alu_ops = 1
           /\ cycles.rets = 1

\* C14 as amended: scenario S1 does not fail, returns Data(20) and ends with
\* fast = 1, slow = 1, ret = 1.
C14_S1OneFast ==
    prog = S1Program
        => /\ outcome.state # "failed"
           /\ outcome.state = "returned"
                 => /\ outcome.val = Data(20)
                    /\ cycles.fast_alu_ops = 1
                    /\ cycles.slow_alu_ops = 1
                    /\ cycles.rets = 1

\* C14 witness: run_prog has returned from scenario S1
C14_Witness == prog = S1Program /\ outcome.state = "returned" /\ steps = 3

\* the address a Load or GetElt read, from its operands before it ran
ReadAddr(ins, l) ==
    IF ins.kind = "Load"
    THEN ExprVal(l, globs, ins.es[1]).val.val
    ELSE ExprVal(l, globs, ins.es[1]).val.val
            + 8 * ExprVal(l, globs, ins.es[2]).val.val

\* C15: a successful Load or GetElt of an address of the current semispace
\* yields the value the last successful Store or SetElt put there since the
\* last gc, whatever was stored at other addresses in between (every such
\* cell still holds that value); scenario S2 without a cap does not fail and
\* returns Data(7) with allocs = 1, writes = 1, reads = 1, ret = 1.
C15_StoreLoadRoundTrip ==
    /\ \A a \in DOMAIN stored : a \in DOMAIN m.map /\ m.map[a] = stored[a]
    /\ (/\ last.instr \in {"Load", "GetElt"}
        /\ last.err = NoErr
        /\ ReadAddr(last.ins, last.pre_locs) \in DOMAIN last.pre_stored
        /\ ReadAddr(last.ins, last.pre_locs) \in SemispaceCells(last.pre_m))
          => locs[last.ins.lhs]
                = last.pre_stored[ReadAddr(last.ins, last.pre_locs)]
    /\ (prog = S2Program /\ m.slot_cap = None)
          => /\ outcome.state # "failed"
             /\ outcome.state = "returned"
                   => /\ outcome.val = Data(7)
                      /\ cycles.allocs = 1
                      /\ cycles.mem_writes = 1
                      /\ cycles.mem_reads = 1
                      /\ cycles.rets = 1

\* C15 witness: a GetElt read back the CodePtr a SetElt had stored in a block
\* returned by alloc, after a Store to another address of the block
C15_Witness ==
    /\ last.instr = "GetElt"
    /\ last.err = NoErr
    /\ ReadAddr(last.ins, last.pre_locs) \in DOMAIN last.pre_stored
    /\ ReadAddr(last.ins, last.pre_locs) \in SemispaceCells(last.pre_m)
    /\ Cardinality(DOMAIN last.pre_stored) = 2
    /\ locs[last.ins.lhs].tag = "CodePtr"

\* C16: every RuntimeError an instruction or terminator returns ends the run
\* with that same error as run_prog's result, in main and in a callee alike,
\* and no instruction runs after it; the first alloc's GCRequired inside an
\* Alloc is not an error of the instruction (the error of the gc or of the
\* retry is).
C16_ErrorsAreFatal ==
    /\ [](/\ (last.err # NoErr /\ last.err.kind # "panic")
                => outcome = Failed(last.err)
          /\ outcome.state = "failed" => outcome.err = last.err
          /\ (last.instr = "Alloc" /\ last.at.first = "GCRequired")
                => last.err # Err("GCRequired", 0))
    /\ [][outcome.state = "running"]_vars

\* C16 witness: an instruction of a callee returned a RuntimeError and the
\* run ended with it
C16_Witness ==
    /\ outcome.state = "failed"
    /\ Len(stack) > 0
    /\ last.err.kind \notin {"panic", "GCRequired"}
    /\ last.depth = Len(stack)
    /\ outcome.err = last.err

\* C17: there are eleven counters and no step (instruction, transfer, call,
\* return, gc inside an Alloc, or an instruction that returns an error)
\* decreases any of them.
C17_CountersMonotone ==
    /\ [](Cardinality(DOMAIN cycles) = 11)
    /\ [][\A f \in DOMAIN cycles : cycles'[f] >= cycles[f]]_vars

\* C17 witness: in a callee, a Store that returned an error after it had
\* counted its write, the counters of the steps before it kept
C17_Witness ==
    /\ last.instr = "Store"
    /\ last.err # NoErr
    /\ cycles.mem_writes = last.pre_cycles.mem_writes + 1
    /\ cycles.calls = 1
    /\ cycles.fast_alu_ops > 0

\* C18: an Alloc whose first alloc(n) returned Ok leaves slots_alloced
\* greater by exactly n than it was.
C18_AllocCountsSlots ==
    (last.instr = "Alloc" /\ last.at.first = "Ok" /\ last.err = NoErr)
        => m.slots_alloced = last.pre_m.slots_alloced + last.at.n

\* the locals that held the address of a well-formed object before the
\* last instruction
ObjectRoots ==
    {x \in DOMAIN last.pre_locs :
        /\ last.pre_locs[x].tag = "Data"
        /\ IsObject(last.pre_m, last.pre_locs[x].val, GraphDepth)}

\* C19: after a gc that returned Ok, the forwarding slot of the old header
\* (old address - 16) of every object a local held is Data(the local's new
\* address), and two locals that held the same object hold the same new
\* address: the object was copied once.
C19_ForwardedOnce ==
    last.at.gc_ok =>
        /\ \A x \in ObjectRoots :
              last.at.gc_m.map[last.pre_locs[x].val - 16]
                 = Data(last.at.gc_locs[x].val)
        /\ \A x, y \in ObjectRoots :
              last.pre_locs[x] = last.pre_locs[y]
                 => last.at.gc_locs[x] = last.at.gc_locs[y]

\* the header and payload of the object at p are present, the header is not
\* forwarded, and the reference slots hold Data
WellFormed(mem, p) ==
    /\ HasHeader(mem, p)
    /\ Payload(mem, p) \subseteq DOMAIN mem.map
    /\ \A i \in 0 .. (mem.map[p - 24].val - 4) :
          /\ mem.map[p + 8 * i].tag # "GCTombstone"
          /\ SlotBit(mem.map[p - 8].val, i) = 1 => mem.map[p + 8 * i].tag = "Data"

\* the addresses in the reference slots of the object at p
Refs(mem, p) ==
    IF WellFormed(mem, p)
    THEN {mem.map[p + 8 * i].val :
             i \in {j \in 0 .. (mem.map[p - 24].val - 4) :
                       SlotBit(mem.map[p - 8].val, j) = 1}}
    ELSE {}

RECURSIVE Reach(_, _, _)

\* the addresses reached from the set S by following references d times
Reach(mem, S, d) ==
    IF d = 0 THEN S
    ELSE Reach(mem, S \cup UNION {Refs(mem, p) : p \in S}, d - 1)

\* the locals are CodePtrs and addresses of objects, the objects they lead
\* to are well formed, one of them lies on a reference cycle, and each
\* counted once they fit into the cap
CyclicRootsFit(mem, l) ==
    LET roots == {l[x].val : x \in {y \in DOMAIN l : l[y].tag = "Data"}}
        live == Reach(mem, roots, GraphDepth)
    IN /\ \A x \in DOMAIN l : l[x].tag # "GCTombstone"
       /\ mem.slot_cap # None
       /\ \A p \in live : WellFormed(mem, p) /\ Refs(mem, p) \subseteq live
       /\ \E p \in live : p \in Reach(mem, Refs(mem, p), GraphDepth)
       /\ SumOver([p \in live |-> mem.map[p - 24].val], live, 0)
             <= mem.slot_cap[1]

\* C20: a gc whose locals lead to well-formed objects that contain a
\* reference cycle and fit into the cap returns Ok.
C20_GcTerminatesOnCycles ==
    (/\ last.instr = "Alloc"
     /\ last.at.gc_calls = 1
     /\ CyclicRootsFit(last.pre_m, last.pre_locs))
        => last.at.gc_ok

\* C21: an Alloc that returned no error bound its destination to Data(addr),
\* addr the first cell of the new block, and raised allocs by exactly 1 and
\* no other counter; an Alloc that returned an error raised no counter and
\* left the locals as they were, or as its gc left them, the destination
\* not bound.
C21_AllocCounted ==
    last.instr = "Alloc" =>
        IF last.err = NoErr
        THEN /\ cycles = Bump(last.pre_cycles, "allocs")
             /\ locs[last.ins.lhs].tag = "Data"
             /\ locs[last.ins.lhs].val \in DOMAIN m.map
             /\ locs[last.ins.lhs].val \notin DOMAIN last.pre_m.map
        ELSE /\ cycles = last.pre_cycles
             /\ locs = (IF last.at.gc_calls > 0 THEN last.at.gc_locs
                        ELSE last.pre_locs)
             /\ DOMAIN locs = DOMAIN last.pre_locs

\* C21 witness: the second Alloc of a run returned no error and bound a
\* destination that was not bound before
C21_Witness ==
    /\ last.instr = "Alloc"
    /\ last.err = NoErr
    /\ cycles.allocs = 2
    /\ last.ins.lhs \in DOMAIN locs

\* C22: after an Alloc of n slots that returned no error, with r the address
\* bound: r is the previous next_alloc + 8; the cells added are exactly
\* r, r+8, ..., r+8(n-1), each Data(0), and no earlier cell changed;
\* next_alloc is r + 8n; the gap r - 8 is absent and every earlier cell lies
\* below it, so the block is disjoint from and not adjacent to any earlier
\* one; mem_lookup of r - 8 and of r + 8n returns UnallocatedAddressRead.
C22_AllocLayout ==
    (last.instr = "Alloc" /\ last.err = NoErr) =>
        LET r == locs[last.ins.lhs].val
            n == last.at.n
            block_cells == {r + 8 * i : i \in 0 .. (n - 1)}
        IN /\ r = last.pre_m.next_alloc + 8
           /\ DOMAIN m.map = DOMAIN last.pre_m.map \cup block_cells
           /\ block_cells \cap DOMAIN last.pre_m.map = {}
           /\ \A a \in block_cells : m.map[a] = Data(0)
           /\ \A a \in DOMAIN last.pre_m.map : m.map[a] = last.pre_m.map[a]
           /\ m.next_alloc = r + 8 * n
           /\ r - 8 \notin DOMAIN m.map
           /\ \A a \in DOMAIN last.pre_m.map : a < r - 8
           /\ MemLookup(m, r - 8).err = Err("UnallocatedAddressRead", r - 8)
           /\ MemLookup(m, r + 8 * n).err
                 = Err("UnallocatedAddressRead", r + 8 * n)

\* C22 witness: a second block was allocated above a first one whose cells
\* had been stored to
C22_Witness ==
    /\ last.instr = "Alloc"
    /\ last.err = NoErr
    /\ SemispaceCells(last.pre_m) # {}
    /\ last.pre_stored # NoCells
    /\ last.at.n > 0

\* C23: the locals of the suspended callers change in no step: a step that
\* is neither a call nor a return (a gc inside a callee's Alloc included)
\* leaves every caller's record as it is, a call saves the caller's locals
\* as they are, and a return restores them with only the destination bound,
\* to the value returned.
C23_AncestorsUntouched ==
    [][/\ Len(stack') = Len(stack) => stack' = stack
       /\ Len(stack') > Len(stack)
             => /\ SubSeq(stack', 1, Len(stack)) = stack
                /\ Len(stack') = Len(stack) + 1
                /\ stack'[Len(stack')].locs = locs
       /\ Len(stack') < Len(stack)
             => /\ stack' = SubSeq(stack, 1, Len(stack) - 1)
                /\ DOMAIN locs' = DOMAIN stack[Len(stack)].locs
                                     \cup {stack[Len(stack)].dest}
                /\ \A x \in DOMAIN stack[Len(stack)].locs :
                      x # stack[Len(stack)].dest
                         => locs'[x] = stack[Len(stack)].locs[x]
                /\ locs'[stack[Len(stack)].dest]
                      = ExprVal(locs, globs,
                                IF prog = OpenProgram THEN Var("p")
                                ELSE prog[block].next.e).val]_vars

\* C23 witness: a gc inside a callee's Alloc rewrote a local of the callee
\* whose caller holds the same address in its locals
C23_Witness ==
    /\ last.instr = "Alloc"
    /\ last.at.gc_calls = 1
    /\ last.depth = 1
    /\ Len(stack) = 1
    /\ \E x \in DOMAIN last.pre_locs, y \in DOMAIN stack[1].locs :
          /\ last.at.gc_locs[x] # last.pre_locs[x]
          /\ stack[1].locs[y] = last.pre_locs[x]

\* C24: an Alloc whose first alloc returned GCRequired returns an error and
\* ends the run; while the run has not failed no gc has run, slots_alloced
\* is 0 and base is where Memory::new put it; and every step starts from a
\* state whose last instruction ran no gc, so no instruction follows a gc.
C24_NoInstructionAfterGc ==
    /\ []((last.instr = "Alloc" /\ last.at.first = "GCRequired")
             => /\ last.at.gc_calls = 1
                /\ last.err # NoErr
                /\ outcome = Failed(last.err))
    /\ [](outcome.state # "failed"
             => /\ last.at.gc_calls = 0
                /\ m.slots_alloced = 0
                /\ m.base = m.first_writable)
    /\ [][last.at.gc_calls = 0 /\ m'.base = m.base]_vars

\* C24 witness: a gc copied objects and returned Ok, the retry was refused,
\* and the run ended with OutOfMemory
C24_Witness ==
    /\ last.instr = "Alloc"
    /\ last.at.gc_ok
    /\ last.at.gc_m.slots_alloced > 0
    /\ last.at.gc_m.next_alloc > last.pre_m.next_alloc
    /\ outcome = Failed(Err("OutOfMemory", 0))

\* the locals that held Data before the last instruction
DataRoots == {x \in DOMAIN last.pre_locs : last.pre_locs[x].tag = "Data"}

\* the forwarding word of the address v was a Data cell before the last
\* instruction
ForwardingWordBefore(v) ==
    /\ v - 16 \in DOMAIN last.pre_m.map
    /\ last.pre_m.map[v - 16].tag = "Data"

\* C25 as claimed, the memory taken as gc found it: after a gc that returned
\* Ok, every local that held Data(v) had a Data cell at v - 16 when gc
\* began, and holds the address trace returned for v.
C25_RootsValidBeforeGc ==
    last.at.gc_ok =>
        \A x \in DataRoots :
            /\ ForwardingWordBefore(last.pre_locs[x].val)
            /\ last.at.gc_locs[x].tag = "Data"

\* C25 as amended: after a gc that returned Ok, every local that held
\* Data(v) has a Data cell at v - 16 that was there when gc began (and is
\* unchanged) or that reserve laid out during this gc (at or above the
\* next_alloc gc began with).  The local holds the address trace returned:
\* the word of that cell when it is not 0, whatever it points to, and
\* otherwise the payload address of a copy made during this gc, whose own
\* forwarding word is 0 and whose size word is the one below v.
C25_RootsValidWhenScanned ==
    last.at.gc_ok =>
        \A x \in DataRoots :
            LET v == last.pre_locs[x].val
                after == last.at.gc_m.map
                new == last.at.gc_locs[x]
            IN /\ ~IsWide(last.pre_locs[x])
               /\ v - 16 \in DOMAIN after
               /\ after[v - 16].tag = "Data"
               /\ IF ForwardingWordBefore(v)
                  THEN after[v - 16] = last.pre_m.map[v - 16]
                  ELSE v - 16 >= last.pre_m.next_alloc
               /\ new.tag = "Data"
               /\ IF after[v - 16] # Data(0)
                  THEN /\ new = after[v - 16]
                       /\ new.val \in DOMAIN after
                  ELSE /\ new.val >= last.pre_m.next_alloc + 24
                       /\ new.val - 16 \in DOMAIN after
                       /\ after[new.val - 16] = Data(0)
                       /\ after[new.val - 24] = after[v - 24]

\* C25 witness: a gc returned Ok with a local whose forwarding word was laid
\* out during the gc as a payload slot of the copy of another local's
\* object; the slot is not 0 and the local now holds its word
C25_Witness ==
    /\ last.at.gc_ok
    /\ \E x \in DataRoots :
          /\ ~ForwardingWordBefore(last.pre_locs[x].val)
          /\ last.at.gc_m.map[last.pre_locs[x].val - 16] # Data(0)
          /\ last.at.gc_locs[x] = last.at.gc_m.map[last.pre_locs[x].val - 16]

====
